---- MODULE Spec2Model ----
(***************************************************************************)
(* Verification model of mirror_hash:                                      *)
(*   - include/mirror_hash/mirror_hash.hpp: mixing policies, the compile-  *)
(*     time size-specialised hasher hash_bytes_fixed<Policy,N>, the        *)
(*     wyhash-optimised path and the reflection front end hash_impl;       *)
(*   - include/mirror_hash_unified.hpp: the runtime-length dispatcher and  *)
(*     the hardware AES mixer.                                             *)
(*                                                                         *)
(* 64-bit words are tuples of 8 bytes, least significant byte first (the   *)
(* byte order of the little-endian targets the library supports), so that  *)
(* an 8-byte load is the buffer bytes themselves and all arithmetic is     *)
(* exact modulo 2^64.                                                      *)
(***************************************************************************)
EXTENDS Integers, Sequences, FiniteSets, TLC

(***************************************************************************)
(* 64-bit arithmetic on byte tuples                                        *)
(***************************************************************************)

\* the 64-bit word whose four 16-bit limbs, most significant first, are a b c d
W16(a, b, c, d) ==
    << d % 256, d \div 256, c % 256, c \div 256,
       b % 256, b \div 256, a % 256, a \div 256 >>

\* the 64-bit word of a natural number below 2^31 (static_cast<std::uint64_t>)
W64(n) ==
    << n % 256, (n \div 256) % 256, (n \div 65536) % 256, (n \div 16777216) % 256,
       0, 0, 0, 0 >>

\* bitwise exclusive or of two 4-bit values, as a table: XorNibble[x + 1][y + 1]
XorNibble ==
    << << 0, 1, 2, 3, 4, 5, 6, 7, 8, 9, 10, 11, 12, 13, 14, 15 >>,
       << 1, 0, 3, 2, 5, 4, 7, 6, 9, 8, 11, 10, 13, 12, 15, 14 >>,
       << 2, 3, 0, 1, 6, 7, 4, 5, 10, 11, 8, 9, 14, 15, 12, 13 >>,
       << 3, 2, 1, 0, 7, 6, 5, 4, 11, 10, 9, 8, 15, 14, 13, 12 >>,
       << 4, 5, 6, 7, 0, 1, 2, 3, 12, 13, 14, 15, 8, 9, 10, 11 >>,
       << 5, 4, 7, 6, 1, 0, 3, 2, 13, 12, 15, 14, 9, 8, 11, 10 >>,
       << 6, 7, 4, 5, 2, 3, 0, 1, 14, 15, 12, 13, 10, 11, 8, 9 >>,
       << 7, 6, 5, 4, 3, 2, 1, 0, 15, 14, 13, 12, 11, 10, 9, 8 >>,
       << 8, 9, 10, 11, 12, 13, 14, 15, 0, 1, 2, 3, 4, 5, 6, 7 >>,
       << 9, 8, 11, 10, 13, 12, 15, 14, 1, 0, 3, 2, 5, 4, 7, 6 >>,
       << 10, 11, 8, 9, 14, 15, 12, 13, 2, 3, 0, 1, 6, 7, 4, 5 >>,
       << 11, 10, 9, 8, 15, 14, 13, 12, 3, 2, 1, 0, 7, 6, 5, 4 >>,
       << 12, 13, 14, 15, 8, 9, 10, 11, 4, 5, 6, 7, 0, 1, 2, 3 >>,
       << 13, 12, 15, 14, 9, 8, 11, 10, 5, 4, 7, 6, 1, 0, 3, 2 >>,
       << 14, 15, 12, 13, 10, 11, 8, 9, 6, 7, 4, 5, 2, 3, 0, 1 >>,
       << 15, 14, 13, 12, 11, 10, 9, 8, 7, 6, 5, 4, 3, 2, 1, 0 >> >>

\* bitwise exclusive or of two bytes
XorByte(x, y) ==
    CHOOSE r \in {16 * t[(x \div 16) + 1][(y \div 16) + 1] + t[(x % 16) + 1][(y % 16) + 1] :
                  t \in {XorNibble}} : TRUE

\* a 64-bit word given byte by byte, every byte computed once
Word(v) == << v[1], v[2], v[3], v[4], v[5], v[6], v[7], v[8] >>

\* operator ^ on std::uint64_t
Xor64(a, b) ==
    CHOOSE r \in {Word([i \in 1..8 |-> XorByte(x[i], y[i])]) : x \in {a}, y \in {b}} : TRUE

\* bitwise or of two bytes
OrByte(x, y) ==
    LET bit(v, i) == (v \div (2 ^ i)) % 2
        F[i \in 0..8] ==
            IF i = 8 THEN 0
            ELSE (IF bit(x, i) = 1 \/ bit(y, i) = 1 THEN 2 ^ i ELSE 0) + F[i + 1]
    IN  F[0]

\* operator | on std::uint64_t
Or64(a, b) == [i \in 1..8 |-> OrByte(a[i], b[i])]

\* operator * on std::uint64_t (wraps modulo 2^64)
Mul64(a, b) ==
    CHOOSE r \in
        {LET col(k) ==
                 LET S[i \in 0..k + 1] ==
                         IF i > k THEN 0 ELSE x[i + 1] * y[k - i + 1] + S[i + 1]
                 IN  S[0]
             R[k \in 0..8] ==
                 \* <<carry into column k, bytes of the columns below k>>
                 IF k = 0 THEN << 0, << >> >>
                 ELSE CHOOSE n \in {<< s \div 256, Append(prev[2], s % 256) >> :
                                       prev \in {R[k - 1]},
                                       s \in {col(k - 1) + R[k - 1][1]}} : TRUE
         IN  R[8][2] : x \in {a}, y \in {b}} : TRUE

\* bit i (0 = least significant) of a 64-bit word, 0 beyond bit 63
Bit64(a, i) == IF i < 0 \/ i > 63 THEN 0 ELSE (a[(i \div 8) + 1] \div (2 ^ (i % 8))) % 2

\* operator >> on std::uint64_t, 0 <= k < 64
Shr64(a, k) ==
    CHOOSE r \in
        {Word([i \in 1..8 |->
                 LET F[j \in 0..8] ==
                         IF j = 8 THEN 0
                         ELSE Bit64(x, 8 * (i - 1) + j + k) * (2 ^ j) + F[j + 1]
                 IN  F[0]]) : x \in {a}} : TRUE

\* operator << on std::uint64_t, 0 <= k < 64
Shl64(a, k) ==
    [i \in 1..8 |->
        LET F[j \in 0..8] ==
                IF j = 8 THEN 0 ELSE Bit64(a, 8 * (i - 1) + j - k) * (2 ^ j) + F[j + 1]
        IN  F[0]]

\* the 128-bit product of two 64-bit words, as 16 bytes (static_cast<__uint128_t>(a) * b)
MulWide(a, b) ==
    LET byteOf(x, i) == IF i >= 1 /\ i <= 8 THEN x[i] ELSE 0
        col(k) ==
            LET S[i \in 0..k + 1] ==
                    IF i > k THEN 0 ELSE byteOf(a, i + 1) * byteOf(b, k - i + 1) + S[i + 1]
            IN  S[0]
        R[k \in 0..16] ==
            IF k = 0 THEN << 0, << >> >>
            ELSE LET prev == R[k - 1]
                     s    == col(k - 1) + prev[1]
                 IN  << s \div 256, Append(prev[2], s % 256) >>
    IN  R[16][2]

\* static_cast<std::uint64_t>(r) of a 128-bit product
Lo64(r) == [i \in 1..8 |-> r[i]]

\* static_cast<std::uint64_t>(r >> 64) of a 128-bit product
Hi64(r) == [i \in 1..8 |-> r[i + 8]]

(***************************************************************************)
(* Mixing policies                                                         *)
(***************************************************************************)

\* folly_policy::kMul = 0x9ddfea08eb382d69
kMul == W16(40415, 59912, 60216, 11625)

\* folly_policy::combine(seed, value)
folly_combine(seed, value) ==
    LET a1 == Mul64(Xor64(value, seed), kMul)
        a2 == Xor64(a1, Shr64(a1, 47))
        b1 == Mul64(Xor64(seed, a2), kMul)
        b2 == Xor64(b1, Shr64(b1, 47))
    IN  Mul64(b2, kMul)

\* folly_policy::mix(k)
folly_mix(k) == folly_combine(W64(0), k)

\* murmur3_policy::fmix64(k)
fmix64(k) ==
    LET k1 == Xor64(k, Shr64(k, 33))
        k2 == Mul64(k1, W16(65361, 45015, 60757, 36045))
        k3 == Xor64(k2, Shr64(k2, 33))
        k4 == Mul64(k3, W16(50382, 47614, 6789, 60499))
    IN  Xor64(k4, Shr64(k4, 33))

\* murmur3_policy::combine(seed, value)
murmur3_combine(seed, value) == fmix64(Xor64(seed, fmix64(value)))

\* murmur3_policy::mix(k)
murmur3_mix(k) == fmix64(k)

\* wyhash_policy::wyp0 = 0xa0761d6478bd642f
wyp0 == W16(41078, 7524, 30909, 25647)

\* wyhash_policy::wyp1 = 0xe7037ed1a0b428db
wyp1 == W16(59139, 32465, 41140, 10459)

\* wyhash_policy::wyp2 = 0x8ebc6af09c88c6e3
wyp2 == W16(36540, 27376, 40072, 50915)

\* wyhash_policy::wyp3 = 0x589965cc75374cc3
wyp3 == W16(22681, 26060, 30007, 19651)

\* wyhash_policy::INIT_SEED = 0x1ff5c2923a788d2c
INIT_SEED == W16(8181, 49810, 14968, 36140)

\* wyhash_policy::wymix(a, b)
wymix(a, b) == LET r == MulWide(a, b) IN Xor64(Lo64(r), Hi64(r))

\* wyhash_policy::combine(seed, value)
wyhash_combine(seed, value) == wymix(Xor64(seed, wyp0), Xor64(value, wyp1))

\* wyhash_policy::mix(k)
wyhash_mix(k) == wymix(Xor64(k, wyp0), wyp1)

\* wyhash_policy::finalize(seed, a, b, len)
wyhash_finalize(seed, a, b, len) ==
    LET r == MulWide(Xor64(a, wyp1), Xor64(b, seed))
    IN  wymix(Xor64(Xor64(Lo64(r), wyp0), W64(len)), Xor64(Hi64(r), wyp1))

\* wyhash_policy::finalize_fast(seed, a, b, len)
wyhash_finalize_fast(seed, a, b, len) ==
    wymix(Xor64(Xor64(a, wyp0), W64(len)), Xor64(Xor64(b, wyp1), seed))

\* Policy::combine(seed, value) of the named policy
PolicyCombine(Policy, seed, value) ==
    IF Policy = "folly_policy" THEN folly_combine(seed, value)
    ELSE IF Policy = "murmur3_policy" THEN murmur3_combine(seed, value)
    ELSE wyhash_combine(seed, value)

\* Policy::mix(k) of the named policy
PolicyMix(Policy, k) ==
    IF Policy = "folly_policy" THEN folly_mix(k)
    ELSE IF Policy = "murmur3_policy" THEN murmur3_mix(k)
    ELSE wyhash_mix(k)

(***************************************************************************)
(* Hash computations as expression trees                                   *)
(*                                                                         *)
(* A hashing routine applied to a buffer of known length performs a fixed  *)
(* schedule of loads and policy operations.  The schedule is kept as an    *)
(* expression tree whose leaves are the loads (buffer offset and width in  *)
(* bytes) and the constants, and whose inner nodes are the operations.     *)
(***************************************************************************)

\* a width-byte little-endian load at p + off, zero-extended (__builtin_memcpy / p[i])
Load(off, width) == [op |-> "load", off |-> off, width |-> width]

\* read64<Offset>(p)
read64(Offset) == Load(Offset, 8)

Const(w) == [op |-> "const", w |-> w]

Xor(a, b) == [op |-> "xor", a |-> a, b |-> b]

Or(a, b) == [op |-> "or", a |-> a, b |-> b]

Shl(a, k) == [op |-> "shl", a |-> a, k |-> k]

\* Policy::combine(a, b)
Combine(a, b) == [op |-> "combine", a |-> a, b |-> b]

\* Policy::mix(a)
Mix(a) == [op |-> "mix", a |-> a]

\* combine2<Policy>(a, b)
combine2(a, b) == Combine(a, b)

\* combine4<Policy>(a, b, c, d)
combine4(a, b, c, d) == Combine(Combine(a, b), Combine(c, d))

\* combine6<Policy>(a, b, c, d, e, f)
combine6(a, b, c, d, e, f) ==
    LET h0 == Combine(a, b)
        h1 == Combine(c, d)
        h2 == Combine(e, f)
    IN  Combine(Combine(h0, h1), h2)

\* combine8<Policy>(v0, ..., v7)
combine8(v0, v1, v2, v3, v4, v5, v6, v7) ==
    LET h0 == Combine(v0, v1)
        h1 == Combine(v2, v3)
        h2 == Combine(v4, v5)
        h3 == Combine(v6, v7)
    IN  Combine(Combine(h0, h1), Combine(h2, h3))

(***************************************************************************)
(* hash_bytes_fixed<Policy, N>: the generic tree-reduction path            *)
(***************************************************************************)

\* hash_bytes_fixed falls back to the runtime loop above 512 words
FixedMaxBytes == 4096

\* the constant N as a std::size_t operand
SizeT(N) == Const(W64(N))

\* N * 0x9e3779b9 (mirror_hash.hpp line 1244)
TailSalt(N) == Const(Mul64(W64(N), W16(0, 0, 40503, 31161)))

\* combine8 over the eight consecutive words that start at byte offset off
group8(off) ==
    combine8(read64(off), read64(off + 8), read64(off + 16), read64(off + 24),
             read64(off + 32), read64(off + 40), read64(off + 48), read64(off + 56))

\* a first group whose first word does not carry the length
group8_first_without_length(N) == group8(0)

\* the first group, whose first word carries the length: read64<0>(p) ^ N
group8_first(N) ==
    combine8(Xor(read64(0), SizeT(N)), read64(8), read64(16), read64(24),
             read64(32), read64(40), read64(48), read64(56))

\* combine8 over seven consecutive words from off and the overlapping tail word
group8_tail(off, N) ==
    combine8(read64(off), read64(off + 8), read64(off + 16), read64(off + 24),
             read64(off + 32), read64(off + 40), read64(off + 48), read64(N - 8))

\* 1 word (1-8 bytes)
fixed_words1(N) ==
    IF N <= 3 THEN
        LET v0 == Load(0, 1)
            v1 == IF N >= 2 THEN Or(v0, Shl(Load(1, 1), 8)) ELSE v0
            v2 == IF N >= 3 THEN Or(v1, Shl(Load(2, 1), 16)) ELSE v1
        IN  Mix(Xor(v2, SizeT(N)))
    ELSE IF N = 4 THEN Mix(Xor(Load(0, 4), SizeT(N)))
    ELSE IF N < 8 THEN Mix(Xor(Or(Load(0, 4), Shl(Load(N - 4, 4), 32)), SizeT(N)))
    ELSE Mix(read64(0))

\* 9-12 words (65-96 bytes)
fixed_words9to12(N, words) ==
    LET h0 == group8_first(N)
        h1 == IF words >= 9 THEN Combine(h0, read64(64)) ELSE h0
        h2 == IF words >= 10 THEN Combine(h1, read64(72)) ELSE h1
        h3 == IF words >= 11 THEN Combine(h2, read64(80)) ELSE h2
    IN  IF words >= 12 THEN Combine(h3, read64(N - 8))
        ELSE Combine(h3, Xor(read64(N - 8), TailSalt(N)))

\* 13-16 words (97-128 bytes)
fixed_words13to16(N) ==
    LET h0 == group8_first(N)
        h1 == group8_tail(64, N)
    IN  Combine(h0, h1)

\* 17-32 words (129-256 bytes)
fixed_words17to32(N, words) ==
    LET h0 == group8_first(N)
        h1 == group8(64)
    IN  IF words > 16 THEN
            LET h2 == group8(128)
            IN  IF words <= 24 THEN
                    LET h3 == read64(N - 8)
                    IN  Combine(Combine(Combine(h0, h1), h2), h3)
                ELSE
                    LET h3 == group8_tail(192, N)
                    IN  Combine(Combine(h0, h1), Combine(h2, h3))
        ELSE Combine(h0, h1)

\* 33-64 words (257-512 bytes)
fixed_words33to64(N, words) ==
    LET g0 == group8_first(N)
        g1 == group8(64)
        g2 == group8(128)
        g3 == group8(192)
    IN  IF words <= 32 THEN Combine(Combine(g0, g1), Combine(g2, g3))
        ELSE IF words <= 40 THEN
            LET g4  == group8_tail(256, N)
                h01 == Combine(g0, g1)
                h23 == Combine(g2, g3)
            IN  Combine(Combine(h01, h23), g4)
        ELSE IF words <= 48 THEN
            LET g4 == group8(256)
                g5 == group8_tail(320, N)
            IN  Combine(Combine(Combine(g0, g1), Combine(g2, g3)), Combine(g4, g5))
        ELSE IF words <= 56 THEN
            LET g4    == group8(256)
                g5    == group8(320)
                g6    == group8_tail(384, N)
                h0123 == Combine(Combine(g0, g1), Combine(g2, g3))
                h456  == Combine(Combine(g4, g5), g6)
            IN  Combine(h0123, h456)
        ELSE
            LET g4 == group8(256)
                g5 == group8(320)
                g6 == group8(384)
                g7 == group8_tail(448, N)
            IN  Combine(Combine(Combine(g0, g1), Combine(g2, g3)),
                        Combine(Combine(g4, g5), Combine(g6, g7)))

\* h = Policy::combine(h, combine8(...)) for the groups idx..last, in order:
\* group idx starts at byte (idx - 1) * 64 and is taken when full_groups >= idx
RECURSIVE fixed_groups(_, _, _, _)
fixed_groups(h, idx, last, full_groups) ==
    IF idx > last THEN h
    ELSE fixed_groups(IF full_groups >= idx THEN Combine(h, group8((idx - 1) * 64)) ELSE h,
                      idx + 1, last, full_groups)

\* 65-128, 129-256 and 257-512 words: the first group, the unrolled full groups
\* 2..unrolled, then one combine with the tail word when words % 8 > 0
fixed_words_systematic(N, words, unrolled) ==
    LET full_groups == words \div 8
        remaining   == words % 8
        h           == fixed_groups(group8_first(N), 2, unrolled, full_groups)
    IN  IF remaining > 0 THEN Combine(h, read64(N - 8)) ELSE h

\* hash_bytes_scalar<Policy>(data, len): the loop and the tail, from cursor off
\* with rem bytes left and accumulator h
RECURSIVE scalar_loop(_, _, _)
scalar_loop(h, off, rem) ==
    IF rem >= 8 THEN scalar_loop(Combine(h, read64(off)), off + 8, rem - 8)
    ELSE IF rem > 0 THEN Combine(h, Load(off, rem))
    ELSE h

\* hash_bytes_scalar<Policy>(data, len)
hash_bytes_scalar(len) == scalar_loop(SizeT(len), 0, len)

\* hash_bytes_fixed<Policy, N> for a policy other than wyhash_policy
hash_bytes_fixed_generic(N) ==
    LET words == (N + 7) \div 8
    IN  IF N = 0 THEN Const(W64(0))
        ELSE IF words = 1 THEN fixed_words1(N)
        ELSE IF words = 2 THEN Combine(Xor(read64(0), SizeT(N)), read64(N - 8))
        ELSE IF words = 3 THEN
            Combine(Combine(Xor(read64(0), SizeT(N)), read64(8)), read64(N - 8))
        ELSE IF words = 4 THEN
            combine4(Xor(read64(0), SizeT(N)), read64(8), read64(16), read64(N - 8))
        ELSE IF words = 5 THEN
            LET h0 == Combine(Xor(read64(0), SizeT(N)), read64(8))
                h1 == Combine(read64(16), read64(24))
            IN  Combine(Combine(h0, h1), read64(N - 8))
        ELSE IF words = 6 THEN
            combine6(Xor(read64(0), SizeT(N)), read64(8), read64(16), read64(24),
                     read64(32), read64(N - 8))
        ELSE IF words = 7 THEN
            LET h0 == combine4(Xor(read64(0), SizeT(N)), read64(8), read64(16), read64(24))
                h1 == Combine(read64(32), read64(40))
            IN  Combine(Combine(h0, h1), read64(N - 8))
        ELSE IF words = 8 THEN
            combine8(Xor(read64(0), SizeT(N)), read64(8), read64(16), read64(24),
                     read64(32), read64(40), read64(48), read64(N - 8))
        ELSE IF words <= 12 THEN fixed_words9to12(N, words)
        ELSE IF words <= 16 THEN fixed_words13to16(N)
        ELSE IF words <= 32 THEN fixed_words17to32(N, words)
        ELSE IF words <= 64 THEN fixed_words33to64(N, words)
        ELSE IF words <= 128 THEN fixed_words_systematic(N, words, 16)
        ELSE IF words <= 256 THEN fixed_words_systematic(N, words, 32)
        ELSE IF words <= 512 THEN fixed_words_systematic(N, words, 65)
        ELSE hash_bytes_scalar(N)

(***************************************************************************)
(* Reading a schedule                                                      *)
(***************************************************************************)

\* the loads of an expression, in evaluation order (left operand first)
RECURSIVE Leaves(_)
Leaves(e) ==
    IF e.op = "load" THEN << e >>
    ELSE IF e.op = "const" THEN << >>
    ELSE IF e.op \in {"mix", "shl"} THEN Leaves(e.a)
    ELSE IF e.op \in {"finalize", "finalize_fast"} THEN
        Leaves(e.seed) \o Leaves(e.a) \o Leaves(e.b)
    ELSE Leaves(e.a) \o Leaves(e.b)

\* the number of Policy::combine calls of an expression
RECURSIVE Combines(_)
Combines(e) ==
    IF e.op \in {"load", "const"} THEN 0
    ELSE IF e.op \in {"mix", "shl"} THEN Combines(e.a)
    ELSE IF e.op \in {"finalize", "finalize_fast"} THEN
        Combines(e.seed) + Combines(e.a) + Combines(e.b)
    ELSE (IF e.op = "combine" THEN 1 ELSE 0) + Combines(e.a) + Combines(e.b)

\* the byte offsets a load touches
LoadBytes(l) == l.off .. (l.off + l.width - 1)

(***************************************************************************)
(* hash_bytes_wyhash_optimized<N>                                          *)
(*                                                                         *)
(* The result is a record: loads, the loads performed in program order     *)
(* (including values loaded eagerly and never used), and value, the        *)
(* expression returned.                                                    *)
(***************************************************************************)

\* wyhash_policy::wymix(a, b)
Wymix(a, b) == [op |-> "wymix", a |-> a, b |-> b]

\* wyhash_policy::combine16(seed, a, b)
combine16(seed, a, b) == Wymix(Xor(a, Const(wyp1)), Xor(b, seed))

\* wyhash_policy::finalize(seed, a, b, len): two multiplies
Finalize(seed, a, b, len) == [op |-> "finalize", seed |-> seed, a |-> a, b |-> b, len |-> len]

\* wyhash_policy::finalize_fast(seed, a, b, len): one multiply
FinalizeFast(seed, a, b, len) ==
    [op |-> "finalize_fast", seed |-> seed, a |-> a, b |-> b, len |-> len]

\* low and high halves of the 128-bit product of the inlined 9-16 byte path
MumLo(a, b) == [op |-> "mum_lo", a |-> a, b |-> b]

MumHi(a, b) == [op |-> "mum_hi", a |-> a, b |-> b]

\* n consecutive 8-byte loads starting at byte offset off
Reads(off, n) == [i \in 1..n |-> read64(off + 8 * (i - 1))]

\* seed = wymix(read64<off> ^ secret[i], read64<off + 8> ^ seed) for the k
\* consecutive 16-byte chunks from off, chunk i mixed with secrets[i]
RECURSIVE wy_chunks(_, _, _, _)
wy_chunks(seed, off, k, secrets) ==
    IF k = 0 THEN seed
    ELSE wy_chunks(Wymix(Xor(read64(off), Const(Head(secrets))), Xor(read64(off + 8), seed)),
                   off + 16, k - 1, Tail(secrets))

\* 1-8 bytes
wy_1to8(N) ==
    LET seed == Const(INIT_SEED)
        zero == Const(W64(0))
    IN  IF N <= 3 THEN
            LET v0 == Load(0, 1)
                v1 == IF N >= 2 THEN Or(v0, Shl(Load(1, 1), 8)) ELSE v0
                v2 == IF N >= 3 THEN Or(v1, Shl(Load(2, 1), 16)) ELSE v1
            IN  [loads |-> [i \in 1..N |-> Load(i - 1, 1)],
                 value |-> Finalize(seed, v2, zero, N)]
        ELSE IF N = 4 THEN
            [loads |-> << Load(0, 4) >>, value |-> Finalize(seed, Load(0, 4), zero, N)]
        ELSE IF N < 8 THEN
            [loads |-> << Load(0, 4), Load(N - 4, 4) >>,
             value |-> Finalize(seed, Or(Shl(Load(0, 4), 32), Load(N - 4, 4)), zero, N)]
        ELSE [loads |-> << read64(0) >>, value |-> Finalize(seed, read64(0), zero, N)]

\* 9-16 bytes: the multiply-and-fold written out inline
wy_9to16(N) ==
    LET seed == Const(INIT_SEED)
        a0   == Xor(read64(0), Const(wyp1))
        b0   == Xor(read64(N - 8), seed)
        a1   == Xor(MumLo(a0, b0), Const(Xor64(wyp0, W64(N))))
        b1   == Xor(MumHi(a0, b0), Const(wyp1))
    IN  [loads |-> << read64(0), read64(N - 8) >>, value |-> Wymix(a1, b1)]

\* 17-48 bytes with no combine16 before the finalizer for N <= 32
wy_17to48_unmixed(N) ==
    LET seed0 == Const(INIT_SEED)
        seed1 == IF N > 32 THEN
                     combine16(combine16(seed0, read64(0), read64(8)), read64(16), read64(24))
                 ELSE seed0
        body  == IF N > 32 THEN Reads(0, 4) ELSE << >>
    IN  [loads |-> body \o << read64(N - 16), read64(N - 8) >>,
         value |-> FinalizeFast(seed1, read64(N - 16), read64(N - 8), N)]

\* 17-48 bytes
wy_17to48(N) ==
    LET seed0 == Const(INIT_SEED)
        seed1 == IF N > 32 THEN
                     combine16(combine16(seed0, read64(0), read64(8)), read64(16), read64(24))
                 ELSE IF N > 16 THEN combine16(seed0, read64(0), read64(8))
                 ELSE seed0
        body  == IF N > 32 THEN Reads(0, 4) ELSE IF N > 16 THEN Reads(0, 2) ELSE << >>
    IN  [loads |-> body \o << read64(N - 16), read64(N - 8) >>,
         value |-> FinalizeFast(seed1, read64(N - 16), read64(N - 8), N)]

\* 49-96 bytes: all words loaded eagerly, then three accumulators
wy_49to96(N) ==
    LET seed0 == Const(INIT_SEED)
        w(i)  == read64(8 * i)
        eager == Reads(0, 6)
                 \o (IF N > 48 THEN << w(6), w(7) >> ELSE << >>)
                 \o (IF N > 64 THEN << w(8), w(9) >> ELSE << >>)
                 \o (IF N > 80 THEN << w(10), w(11) >> ELSE << >>)
        seedA == Wymix(Xor(w(0), Const(wyp1)), Xor(w(1), seed0))
        see1  == Wymix(Xor(w(2), Const(wyp2)), Xor(w(3), seed0))
        see2  == Wymix(Xor(w(4), Const(wyp3)), Xor(w(5), seed0))
        seedB == Xor(seedA, Xor(see1, see2))
        seedC == IF N > 64 THEN Wymix(Xor(w(6), Const(wyp1)), Xor(w(7), seedB)) ELSE seedB
        seedD == IF N > 80 THEN Wymix(Xor(w(8), Const(wyp1)), Xor(w(9), seedC)) ELSE seedC
    IN  IF N > 80 THEN
            [loads |-> eager, value |-> FinalizeFast(seedD, w(10), w(11), N)]
        ELSE IF N > 64 THEN
            [loads |-> eager \o << read64(N - 16), read64(N - 8) >>,
             value |-> FinalizeFast(seedD, read64(N - 16), read64(N - 8), N)]
        ELSE IF N > 56 THEN
            [loads |-> eager, value |-> FinalizeFast(seedD, w(6), w(7), N)]
        ELSE
            [loads |-> eager \o << read64(N - 16), read64(N - 8) >>,
             value |-> FinalizeFast(seedD, read64(N - 16), read64(N - 8), N)]

\* 97-128 bytes: two 48-byte super-blocks on three accumulators
wy_97to128(N) ==
    LET seed0 == Const(INIT_SEED)
        seedA == Wymix(Xor(read64(0), Const(wyp1)), Xor(read64(8), seed0))
        see1A == Wymix(Xor(read64(16), Const(wyp2)), Xor(read64(24), seed0))
        see2A == Wymix(Xor(read64(32), Const(wyp3)), Xor(read64(40), seed0))
        seedB == Wymix(Xor(read64(48), Const(wyp1)), Xor(read64(56), seedA))
        see1B == Wymix(Xor(read64(64), Const(wyp2)), Xor(read64(72), see1A))
        see2B == Wymix(Xor(read64(80), Const(wyp3)), Xor(read64(88), see2A))
        seedC == Xor(seedB, Xor(see1B, see2B))
        seedD == IF N > 112 THEN Wymix(Xor(read64(96), Const(wyp1)), Xor(read64(104), seedC))
                 ELSE seedC
    IN  [loads |-> Reads(0, 12) \o (IF N > 112 THEN Reads(96, 2) ELSE << >>)
                   \o << read64(N - 16), read64(N - 8) >>,
         value |-> FinalizeFast(seedD, read64(N - 16), read64(N - 8), N)]

\* ULTRA_ITER_64(off) on the accumulators acc = <<seed, s1, s2, s3>>
ULTRA_ITER_64(acc, off) ==
    << Wymix(Xor(read64(off), Const(wyp1)), Xor(read64(off + 8), acc[1])),
       Wymix(Xor(read64(off + 16), Const(wyp2)), Xor(read64(off + 24), acc[2])),
       Wymix(Xor(read64(off + 32), Const(wyp3)), Xor(read64(off + 40), acc[3])),
       Wymix(Xor(read64(off + 48), Const(wyp0)), Xor(read64(off + 56), acc[4])) >>

\* the conditional iterations of the 129-512 bracket: iteration j (0..5) runs
\* at offset 128 + 64 j when N >= 192 + 64 j
RECURSIVE wy_iters64(_, _, _)
wy_iters64(st, j, N) ==
    IF j > 5 THEN st
    ELSE wy_iters64(IF N >= 192 + 64 * j
                    THEN [acc   |-> ULTRA_ITER_64(st.acc, 128 + 64 * j),
                          loads |-> st.loads \o Reads(128 + 64 * j, 8)]
                    ELSE st,
                    j + 1, N)

\* 129-512 bytes: four accumulators, 64 bytes per iteration
wy_129to512(N) ==
    LET seed0     == Const(INIT_SEED)
        st0       == [acc |-> << seed0, seed0, seed0, seed0 >>, loads |-> << >>]
        st1       == [acc |-> ULTRA_ITER_64(st0.acc, 0), loads |-> Reads(0, 8)]
        st2       == [acc |-> ULTRA_ITER_64(st1.acc, 64), loads |-> st1.loads \o Reads(64, 8)]
        st3       == wy_iters64(st2, 0, N)
        seedA     == Xor(st3.acc[1], Xor(st3.acc[2], Xor(st3.acc[3], st3.acc[4])))
        processed == (N \div 64) * 64
        remainder == N - processed
        k         == IF remainder > 48 THEN 3
                     ELSE IF remainder > 32 THEN 2
                     ELSE IF remainder > 16 THEN 1
                     ELSE 0
        seedB     == wy_chunks(seedA, processed, k, << wyp1, wyp1, wyp1 >>)
    IN  [loads |-> st3.loads \o Reads(processed, 2 * k) \o << read64(N - 16), read64(N - 8) >>,
         value |-> FinalizeFast(seedB, read64(N - 16), read64(N - 8), N)]

\* the seven secrets s0..s6 of the 7-way brackets
wy_s4 == Xor64(wyp0, wyp1)

wy_s5 == Xor64(wyp2, wyp3)

wy_s6 == Xor64(wyp0, wyp2)

\* one 112-byte step on the accumulators acc = <<seed, see1, ..., see6>>
ULTRA_ITER_112(acc, off) ==
    << Wymix(Xor(read64(off), Const(wyp0)), Xor(read64(off + 8), acc[1])),
       Wymix(Xor(read64(off + 16), Const(wyp1)), Xor(read64(off + 24), acc[2])),
       Wymix(Xor(read64(off + 32), Const(wyp2)), Xor(read64(off + 40), acc[3])),
       Wymix(Xor(read64(off + 48), Const(wyp3)), Xor(read64(off + 56), acc[4])),
       Wymix(Xor(read64(off + 64), Const(wy_s4)), Xor(read64(off + 72), acc[5])),
       Wymix(Xor(read64(off + 80), Const(wy_s5)), Xor(read64(off + 88), acc[6])),
       Wymix(Xor(read64(off + 96), Const(wy_s6)), Xor(read64(off + 104), acc[7])) >>

\* seed ^= see1; see2 ^= see3; see4 ^= see5; seed ^= see6; see2 ^= see4; seed ^= see2
wy_reduce7(acc) ==
    Xor(Xor(Xor(acc[1], acc[2]), acc[7]), Xor(Xor(acc[3], acc[4]), Xor(acc[5], acc[6])))

\* while (remaining > limit) { 112-byte step; ptr += 112; remaining -= 112; }
RECURSIVE wy_loop112(_, _, _, _)
wy_loop112(st, off, remaining, limit) ==
    IF remaining > limit
    THEN wy_loop112([acc |-> ULTRA_ITER_112(st.acc, off), loads |-> st.loads \o Reads(off, 14)],
                    off + 112, remaining - 112, limit)
    ELSE [acc |-> st.acc, loads |-> st.loads, off |-> off, remaining |-> remaining]

\* while (remaining > limit) { seed = wymix(w0 ^ s2, w1 ^ seed); ptr += 16; remaining -= 16; }
RECURSIVE wy_loop16(_, _, _, _)
wy_loop16(st, off, remaining, limit) ==
    IF remaining > limit
    THEN wy_loop16([seed  |-> Wymix(Xor(read64(off), Const(wyp2)), Xor(read64(off + 8), st.seed)),
                    loads |-> st.loads \o Reads(off, 2)],
                   off + 16, remaining - 16, limit)
    ELSE st

\* 513-1024 bytes: runtime loops, strict comparisons (> 112, > 16)
wy_513to1024(N) ==
    LET seed0 == Const(INIT_SEED)
        st1   == wy_loop112([acc |-> [i \in 1..7 |-> seed0], loads |-> << >>], 0, N, 112)
        st2   == wy_loop16([seed |-> wy_reduce7(st1.acc), loads |-> st1.loads],
                           st1.off, st1.remaining, 16)
    IN  [loads |-> st2.loads \o << read64(N - 16), read64(N - 8) >>,
         value |-> FinalizeFast(st2.seed, read64(N - 16), read64(N - 8), N)]

\* the conditional iterations of the 1025-4096 bracket: iteration j (0..26)
\* runs at offset 112 j when N >= 1120 + 112 j
RECURSIVE wy_iters112(_, _, _)
wy_iters112(st, j, N) ==
    IF j > 26 THEN st
    ELSE wy_iters112(IF N >= 1120 + 112 * j
                     THEN [acc   |-> ULTRA_ITER_112(st.acc, 112 * j),
                           loads |-> st.loads \o Reads(112 * j, 14)]
                     ELSE st,
                     j + 1, N)

\* 1025-4096 bytes: unrolled 7-way iterations, then up to six 16-byte chunks
wy_1025to4096(N) ==
    LET seed0     == Const(INIT_SEED)
        st1       == wy_iters112([acc |-> [i \in 1..7 |-> seed0], loads |-> << >>], 0, N)
        seedA     == wy_reduce7(st1.acc)
        processed == (N \div 112) * 112
        remainder == N - processed
        k         == IF remainder > 96 THEN 6
                     ELSE IF remainder > 80 THEN 5
                     ELSE IF remainder > 64 THEN 4
                     ELSE IF remainder > 48 THEN 3
                     ELSE IF remainder > 32 THEN 2
                     ELSE IF remainder > 16 THEN 1
                     ELSE 0
        seedB     == wy_chunks(seedA, processed, k, << wyp2, wyp2, wyp1, wyp1, wyp2, wyp1 >>)
    IN  [loads |-> st1.loads \o Reads(processed, 2 * k) \o << read64(N - 16), read64(N - 8) >>,
         value |-> FinalizeFast(seedB, read64(N - 16), read64(N - 8), N)]

\* above 4096 bytes: runtime loops, non-strict comparisons (>= 112, >= 16)
wy_above4096(N) ==
    LET seed0 == Const(INIT_SEED)
        st1   == wy_loop112([acc |-> [i \in 1..7 |-> seed0], loads |-> << >>], 0, N, 111)
        st2   == wy_loop16([seed |-> wy_reduce7(st1.acc), loads |-> st1.loads],
                           st1.off, st1.remaining, 15)
    IN  [loads |-> st2.loads \o << read64(N - 16), read64(N - 8) >>,
         value |-> FinalizeFast(st2.seed, read64(N - 16), read64(N - 8), N)]

\* hash_bytes_wyhash_optimized<N>(data)
hash_bytes_wyhash_optimized(N) ==
    IF N = 0 THEN [loads |-> << >>, value |-> Const(W64(0))]
    ELSE IF N <= 8 THEN wy_1to8(N)
    ELSE IF N <= 16 THEN wy_9to16(N)
    ELSE IF N <= 48 THEN wy_17to48(N)
    ELSE IF N <= 96 THEN wy_49to96(N)
    ELSE IF N <= 128 THEN wy_97to128(N)
    ELSE IF N <= 512 THEN wy_129to512(N)
    ELSE IF N <= 1024 THEN wy_513to1024(N)
    ELSE IF N <= 4096 THEN wy_1025to4096(N)
    ELSE wy_above4096(N)

\* the mixing policies; every policy but wyhash_policy takes the generic path
Policies == {"folly_policy", "murmur3_policy", "wyhash_policy"}

\* hash_bytes_fixed<Policy, N>(data)
hash_bytes_fixed(Policy, N) ==
    IF Policy = "wyhash_policy" THEN hash_bytes_wyhash_optimized(N)
    ELSE LET e == hash_bytes_fixed_generic(N) IN [loads |-> Leaves(e), value |-> e]

(***************************************************************************)
(* Evaluating a schedule on a buffer                                       *)
(***************************************************************************)

\* the value of a load: width bytes of buf from offset off, zero-extended
LoadValue(buf, off, width) == [i \in 1..8 |-> IF i <= width THEN buf[off + i] ELSE 0]

\* the 64-bit value of expression e under Policy on the bytes buf (buf[1] is offset 0)
RECURSIVE Eval(_, _, _)
Eval(e, buf, Policy) ==
    IF e.op = "load" THEN LoadValue(buf, e.off, e.width)
    ELSE IF e.op = "const" THEN e.w
    ELSE IF e.op = "shl" THEN
        CHOOSE r \in {Shl64(x, e.k) : x \in {Eval(e.a, buf, Policy)}} : TRUE
    ELSE IF e.op = "mix" THEN
        CHOOSE r \in {PolicyMix(Policy, x) : x \in {Eval(e.a, buf, Policy)}} : TRUE
    ELSE IF e.op \in {"finalize", "finalize_fast"} THEN
        CHOOSE r \in {IF e.op = "finalize" THEN wyhash_finalize(s, x, y, e.len)
                      ELSE wyhash_finalize_fast(s, x, y, e.len) :
                      s \in {Eval(e.seed, buf, Policy)},
                      x \in {Eval(e.a, buf, Policy)},
                      y \in {Eval(e.b, buf, Policy)}} : TRUE
    ELSE
        CHOOSE r \in {CASE e.op = "xor" -> Xor64(x, y)
                        [] e.op = "or" -> Or64(x, y)
                        [] e.op = "combine" -> PolicyCombine(Policy, x, y)
                        [] e.op = "wymix" -> wymix(x, y)
                        [] e.op = "mum_lo" -> Lo64(MulWide(x, y))
                        [] e.op = "mum_hi" -> Hi64(MulWide(x, y)) :
                      x \in {Eval(e.a, buf, Policy)},
                      y \in {Eval(e.b, buf, Policy)}} : TRUE

(***************************************************************************)
(* State                                                                   *)
(***************************************************************************)

VARIABLES
    fx_pc,      \* "call" before hash_bytes_fixed<Policy,N> runs, "ret" after it returned
    fx_policy,  \* the Policy template argument
    fx_N,       \* the N template argument (the buffer holds exactly N bytes)
    fx_out,     \* the loads performed and the expression returned
    st_pc,      \* "init", "a" (a constructed), "b" (a and b constructed), "done" (both hashed)
    st_type,    \* the struct type of the two objects
    st_a,       \* object a: its member values and its object representation
    st_b,       \* object b
    st_ha,      \* mirror_hash::hash(a)
    st_hb,      \* mirror_hash::hash(b)
    un_pc,      \* "call" before an entry point of mirror_hash_unified.hpp runs, "ret" after
    un_build,   \* the target the header is compiled for
    un_len,     \* the len argument
    un_fn,      \* the entry point called
    un_out,     \* the routine that computed the result and the AES rounds it ran
    cmp_pc,     \* "call" before the two computations of a comparison run, "done" after
    cmp_in,     \* the comparison: its kind and the inputs of the two computations
    cmp_out,    \* the two results
    th_pc,      \* per thread: "idle", the statement the routine is at, "ret" or "fault"
    th_call,    \* per thread: the call being served
    th_p,       \* per thread: the cursor p, as an offset from key
    th_len,     \* per thread: the remaining length len
    th_acc,     \* the accumulators (state, hash, h), one per storage slot
    th_stack,   \* per thread: the 16 stack bytes that hash_aes_bulk's buf occupies
    th_out,     \* per thread: the value returned
    th_hist,    \* per thread: the calls that returned, with their values, oldest first
    fd_pc,      \* "call" before a fold over members or arguments runs, "fold", then "ret"
    fd_in,      \* the fold: the function called, the Policy and the member values
    fd_i,       \* the pack element the fold expression evaluates next, from 1
    fd_result,  \* the local result
    fd_trace,   \* the members combined so far, in the order they were combined
    qa_pc,      \* "call" before an analysis of hash_quality.hpp runs, the loop it is in,
                \* "ret" after it returned, "fault" if the process was killed
    qa_call,    \* the analysis, the hash callable and num_samples
    qa_i,       \* the counter i of the loop the analysis is in
    qa_loc,     \* the locals of the analysis
    qa_result,  \* the result struct returned
    qa_faults   \* the divisions by zero and the dereferences of an empty range executed

fx_vars == << fx_pc, fx_policy, fx_N, fx_out >>

st_vars == << st_pc, st_type, st_a, st_b, st_ha, st_hb >>

un_vars == << un_pc, un_build, un_len, un_fn, un_out >>

cmp_vars == << cmp_pc, cmp_in, cmp_out >>

th_vars == << th_pc, th_call, th_p, th_len, th_acc, th_stack, th_out, th_hist >>

fd_vars == << fd_pc, fd_in, fd_i, fd_result, fd_trace >>

qa_vars == << qa_pc, qa_call, qa_i, qa_loc, qa_result, qa_faults >>

vars == << fx_vars, st_vars, un_vars, cmp_vars, th_vars, fd_vars, qa_vars >>

\* nothing computed yet
NoOut == [loads |-> << >>, value |-> Const(W64(0))]

\* no object constructed
NoObject == [members |-> << >>, bytes |-> << >>]

\* the component is not running in this specification
FixedIdle == fx_pc = "idle" /\ fx_policy = "folly_policy" /\ fx_N = 0 /\ fx_out = NoOut

StructIdle ==
    /\ st_pc = "idle" /\ st_type = "none"
    /\ st_a = NoObject /\ st_b = NoObject
    /\ st_ha = W64(0) /\ st_hb = W64(0)

\* no routine has run
NoRun == [algo |-> "none", rounds |-> 0]

UnifiedIdle ==
    /\ un_pc = "idle" /\ un_build = [arch |-> "other", aes |-> FALSE]
    /\ un_len = 0 /\ un_fn = "none" /\ un_out = NoRun

CompareIdle == cmp_pc = "idle" /\ cmp_in = [kind |-> "none"] /\ cmp_out = << >>

ThreadsIdle ==
    /\ th_pc = << >> /\ th_call = << >> /\ th_p = << >> /\ th_len = << >>
    /\ th_acc = << >> /\ th_stack = << >> /\ th_out = << >> /\ th_hist = << >>

FoldIdle ==
    /\ fd_pc = "idle" /\ fd_in = [fn |-> "none"] /\ fd_i = 0
    /\ fd_result = << >> /\ fd_trace = << >>

OracleIdle ==
    /\ qa_pc = "idle" /\ qa_call = [analysis |-> "none"] /\ qa_i = 0
    /\ qa_loc = << >> /\ qa_result = << >> /\ qa_faults = {}

\* the state of every component but one: idle, and left unchanged by that one's steps
OnlyFixed == StructIdle /\ UnifiedIdle /\ CompareIdle /\ ThreadsIdle /\ FoldIdle /\ OracleIdle

OnlyStruct == FixedIdle /\ UnifiedIdle /\ CompareIdle /\ ThreadsIdle /\ FoldIdle /\ OracleIdle

OnlyUnified == FixedIdle /\ StructIdle /\ CompareIdle /\ ThreadsIdle /\ FoldIdle /\ OracleIdle

OnlyCompare == FixedIdle /\ StructIdle /\ UnifiedIdle /\ ThreadsIdle /\ FoldIdle /\ OracleIdle

OnlyThreads == FixedIdle /\ StructIdle /\ UnifiedIdle /\ CompareIdle /\ FoldIdle /\ OracleIdle

OnlyFold == FixedIdle /\ StructIdle /\ UnifiedIdle /\ CompareIdle /\ ThreadsIdle /\ OracleIdle

OnlyOracle == FixedIdle /\ StructIdle /\ UnifiedIdle /\ CompareIdle /\ ThreadsIdle /\ FoldIdle

fx_others == << st_vars, un_vars, cmp_vars, th_vars, fd_vars, qa_vars >>

st_others == << fx_vars, un_vars, cmp_vars, th_vars, fd_vars, qa_vars >>

un_others == << fx_vars, st_vars, cmp_vars, th_vars, fd_vars, qa_vars >>

cmp_others == << fx_vars, st_vars, un_vars, th_vars, fd_vars, qa_vars >>

th_others == << fx_vars, st_vars, un_vars, cmp_vars, fd_vars, qa_vars >>

fd_others == << fx_vars, st_vars, un_vars, cmp_vars, th_vars, qa_vars >>

qa_others == << fx_vars, st_vars, un_vars, cmp_vars, th_vars, fd_vars >>

(***************************************************************************)
(* One instantiation of hash_bytes_fixed<Policy, N>                        *)
(***************************************************************************)

FixedInit ==
    /\ fx_pc = "call"
    /\ fx_policy \in Policies
    /\ fx_N \in 0..FixedMaxBytes
    /\ fx_out = NoOut
    /\ OnlyFixed

\* the call hash_bytes_fixed<fx_policy, fx_N>(data)
HashBytesFixed ==
    /\ fx_pc = "call"
    /\ fx_out' = hash_bytes_fixed(fx_policy, fx_N)
    /\ fx_pc' = "ret"
    /\ UNCHANGED << fx_policy, fx_N >>
    /\ UNCHANGED fx_others

FixedNext == HashBytesFixed

SpecFixed == FixedInit /\ [][FixedNext]_vars

(***************************************************************************)
(* Claims about hash_bytes_fixed (checked under SpecFixed)                 *)
(***************************************************************************)

\* ceil(N / 8)
WordsOf(N) == (N + 7) \div 8

\* C1: for every policy and every N in 1..4096, every 8-byte load performed by
\* hash_bytes_fixed<Policy,N> lies inside the buffer: it starts at an offset
\* in 0..N-8, so no byte at or past offset N is read.
C1_NoLoadPastEnd ==
    (fx_pc = "ret" /\ fx_N \in 1..FixedMaxBytes) =>
        \A i \in 1..Len(fx_out.loads) :
            fx_out.loads[i].width = 8 =>
                (fx_out.loads[i].off >= 0 /\ fx_out.loads[i].off <= fx_N - 8)

\* C2: for every non-wyhash policy and every N in 1..4096, every byte offset
\* of the buffer lies inside at least one load whose value reaches the
\* returned hash.
C2_EveryByteCombined ==
    (fx_pc = "ret" /\ fx_policy # "wyhash_policy" /\ fx_N \in 1..FixedMaxBytes) =>
        LET used == Leaves(fx_out.value)
        IN  \A b \in 0..(fx_N - 1) : \E i \in 1..Len(used) : b \in LoadBytes(used[i])

\* C3: in hash_bytes_wyhash_optimized<N>, for every N in 17..4096 the two
\* words handed to the final finalize_fast call are the buffer bytes
\* [N-16, N-8) and [N-8, N).
C3_FinalizeLast16 ==
    (fx_pc = "ret" /\ fx_policy = "wyhash_policy" /\ fx_N \in 17..FixedMaxBytes) =>
        /\ fx_out.value.op = "finalize_fast"
        /\ fx_out.value.a = read64(fx_N - 16)
        /\ fx_out.value.b = read64(fx_N - 8)

\* C5: for every non-wyhash policy and every N in 9..4096,
\* hash_bytes_fixed<Policy,N> performs exactly ceil(N/8) - 1 Policy::combine calls.
C5_CombineCount ==
    (fx_pc = "ret" /\ fx_policy # "wyhash_policy" /\ fx_N \in 9..FixedMaxBytes) =>
        Combines(fx_out.value) = WordsOf(fx_N) - 1

\* C6: for every non-wyhash policy and every N in 9..4096,
\* hash_bytes_fixed<Policy,N> performs exactly ceil(N/8) 8-byte loads, the
\* last of them at offset N-8.
C6_LoadCount ==
    (fx_pc = "ret" /\ fx_policy # "wyhash_policy" /\ fx_N \in 9..FixedMaxBytes) =>
        /\ Len(fx_out.loads) = WordsOf(fx_N)
        /\ \A i \in 1..Len(fx_out.loads) : fx_out.loads[i].width = 8
        /\ fx_out.loads[Len(fx_out.loads)].off = fx_N - 8

\* the first operand of the first Policy::combine evaluated: the leftmost operand of
\* the tree of combines
RECURSIVE FirstOperand(_)
FirstOperand(e) == IF e.op = "combine" THEN FirstOperand(e.a) ELSE e

\* eight bytes that two buffers of different lengths share as their first word
CommonPrefix == << 3, 10, 17, 24, 31, 38, 45, 52 >>

\* lengths another buffer with the same first eight bytes can have
OtherLens == {9, 16, 17, 64, 65, 512, 513, 1024, 1025, 4095, 4096}

\* the first word XORed with the length, for each of the other lengths
OtherFirstWords == [N \in OtherLens |-> Xor64(CommonPrefix, W64(N))]

\* C21: for every non-wyhash policy and every N in 9..4096, the first operand of the
\* first combine is the word loaded at offset 0 XORed with N, so that for two lengths
\* N1 # N2 and buffers with the same first eight bytes this operand differs
C21_FirstWordCarriesLength ==
    (fx_pc = "ret" /\ fx_policy # "wyhash_policy" /\ fx_N \in 9..FixedMaxBytes) =>
        /\ FirstOperand(fx_out.value) = Xor(read64(0), SizeT(fx_N))
        /\ \A N2 \in OtherLens \ {fx_N} :
              Eval(FirstOperand(fx_out.value), CommonPrefix, fx_policy) # OtherFirstWords[N2]

\* N = 1000 (125 words, the 65-128 word bracket): the leftmost operand is
\* read64<0>(p) ^ 1000
C21_Witness ==
    /\ fx_pc = "ret" /\ fx_policy = "folly_policy" /\ fx_N = 1000
    /\ FirstOperand(fx_out.value) = Xor(read64(0), SizeT(1000))
    /\ Eval(FirstOperand(fx_out.value), CommonPrefix, fx_policy) = Xor64(CommonPrefix, W64(1000))
    /\ Eval(FirstOperand(fx_out.value), CommonPrefix, fx_policy) # OtherFirstWords[1024]

\* the branch of the if constexpr chain of hash_bytes_wyhash_optimized<N> that is
\* instantiated, named by the lengths its condition admits
wy_branch(N) ==
    IF N = 0 THEN "0"
    ELSE IF N <= 8 THEN "1-8"
    ELSE IF N <= 16 THEN "9-16"
    ELSE IF N <= 48 THEN "17-48"
    ELSE IF N <= 96 THEN "49-96"
    ELSE IF N <= 128 THEN "97-128"
    ELSE IF N <= 512 THEN "129-512"
    ELSE IF N <= 1024 THEN "513-1024"
    ELSE IF N <= 4096 THEN "1025-4096"
    ELSE "above 4096"

\* the size brackets of the contract: the last length of each, in order
BracketEnds == << 0, 8, 16, 48, 96, 128, 512, 4096 >>

\* the bracket of the contract that N falls in (the last one is everything above 4096)
BracketOf(N) == Cardinality({i \in 1..Len(BracketEnds) : BracketEnds[i] < N}) + 1

\* the accumulator the parallel lanes are reduced into: the seed handed to finalize_fast
\* with the 16-byte chunks mixed in after the reduction taken off
RECURSIVE ReducedSeed(_)
ReducedSeed(e) == IF e.op = "wymix" THEN ReducedSeed(e.b.b) ELSE e

\* the operands of a reduction seed ^= see1 ^ ...
RECURSIVE XorOperands(_)
XorOperands(e) == IF e.op = "xor" THEN XorOperands(e.a) \o XorOperands(e.b) ELSE << e >>

\* the parallel accumulators in use: the operands of the reduction that have absorbed
\* input data
Lanes(e) ==
    LET ops == XorOperands(ReducedSeed(e.seed))
    IN  Cardinality({i \in 1..Len(ops) : ops[i].op = "wymix"})

\* C22: the brackets of hash_bytes_wyhash_optimized<N> change exactly at the boundaries
\* 0 / 1-8 / 9-16 / 17-48 / 49-96 / 97-128 / 129-512 / 513-4096 / above 4096, with 3
\* parallel accumulators for 49-128, 4 for 129-512 and 7 for 513-4096
C22_BracketsAndLanes ==
    (fx_pc = "ret" /\ fx_policy = "wyhash_policy") =>
        /\ (wy_branch(fx_N) = wy_branch(fx_N + 1)) <=> (BracketOf(fx_N) = BracketOf(fx_N + 1))
        /\ (49 <= fx_N /\ fx_N <= 128) => Lanes(fx_out.value) = 3
        /\ (129 <= fx_N /\ fx_N <= 512) => Lanes(fx_out.value) = 4
        /\ (513 <= fx_N /\ fx_N <= 4096) => Lanes(fx_out.value) = 7

\* an operand of a mixing step that holds input data: a load, or a load XOR a secret or
\* an accumulator
DataOperand(x) == x.op = "load" \/ (x.op = "xor" /\ (x.a.op = "load" \/ x.b.op = "load"))

\* the accumulator e is the output of a wymix (combine16 is one) over input data, or the
\* XOR of accumulators one of which is
RECURSIVE MixedSeed(_)
MixedSeed(e) ==
    IF e.op = "wymix" THEN DataOperand(e.a) \/ DataOperand(e.b)
    ELSE IF e.op = "xor" THEN MixedSeed(e.a) \/ MixedSeed(e.b)
    ELSE FALSE

\* the value comes out of the two-multiply finalization: P::finalize, or the two inlined
\* 128-bit products of the 9-16 byte path
TwoMultiplies(e) ==
    \/ e.op = "finalize"
    \/ /\ e.op = "wymix"
       /\ e.a.op = "xor" /\ e.a.a.op = "mum_lo"
       /\ e.b.op = "xor" /\ e.b.a.op = "mum_hi"

\* C20: hash_bytes_wyhash_optimized<N> calls finalize_fast only for N > 16 and only with
\* a seed that is the output of an earlier combine16 or wymix over input data; for every
\* N <= 16 the two-multiply finalization is used
C20_FastOnlyAfterMixing ==
    (fx_pc = "ret" /\ fx_policy = "wyhash_policy") =>
        /\ fx_out.value.op = "finalize_fast" =>
              (fx_N > 16 /\ MixedSeed(fx_out.value.seed))
        /\ fx_N <= 16 => TwoMultiplies(fx_out.value)

\* finalize_fast is called only for N > 16 and only with a seed that is the output of an
\* earlier combine16 or wymix over input data; for every N in 1..16 the two-multiply
\* finalization is used, and for N = 0 the constant 0 is returned with no finalization
C20_FastOnlyAfterMixingFrom1 ==
    (fx_pc = "ret" /\ fx_policy = "wyhash_policy") =>
        /\ fx_out.value.op = "finalize_fast" =>
              (fx_N > 16 /\ MixedSeed(fx_out.value.seed))
        /\ (1 <= fx_N /\ fx_N <= 16) => TwoMultiplies(fx_out.value)
        /\ fx_N = 0 => fx_out.value = Const(W64(0))

\* N = 1025: no 7-way iteration runs, and finalize_fast still takes a seed that one wymix
\* over the bytes [1008, 1024) produced
C20_Witness ==
    /\ fx_pc = "ret" /\ fx_policy = "wyhash_policy" /\ fx_N = 1025
    /\ fx_out.value.op = "finalize_fast"
    /\ fx_out.value.seed.op = "wymix"
    /\ fx_out.value.seed.a = Xor(read64(1008), Const(wyp2))
    /\ MixedSeed(fx_out.value.seed)

(***************************************************************************)
(* Hashing trivially copyable structs: hash_impl, fast path                *)
(***************************************************************************)

\* a member or a padding region of a struct, size bytes long
Member(size) == [size |-> size, pad |-> FALSE]
Padding(size) == [size |-> size, pad |-> TRUE]

\* struct WithPadding1 { int a; char c; }, sizeof 8
WithPadding1 == << Member(4), Member(1), Padding(3) >>

\* struct WithPadding2 { char c; int a; }, sizeof 8
WithPadding2 == << Member(1), Padding(3), Member(4) >>

\* struct WithPadding3 { char a; short b; char c; int d; }, sizeof 12
WithPadding3 == << Member(1), Padding(1), Member(2), Member(1), Padding(3), Member(4) >>

\* struct WithPadding4 { double d; int i; char c; }, sizeof 16
WithPadding4 == << Member(8), Member(4), Member(1), Padding(3) >>

StructTypes == {"WithPadding1", "WithPadding2", "WithPadding3", "WithPadding4"}

Layout(T) ==
    CASE T = "WithPadding1" -> WithPadding1
      [] T = "WithPadding2" -> WithPadding2
      [] T = "WithPadding3" -> WithPadding3
      [] T = "WithPadding4" -> WithPadding4

\* offset of region k of the layout
RECURSIVE OffsetOf(_, _)
OffsetOf(layout, k) == IF k = 1 THEN 0 ELSE OffsetOf(layout, k - 1) + layout[k - 1].size

SizeOf(layout) == OffsetOf(layout, Len(layout)) + layout[Len(layout)].size

\* the region holding the byte at offset i
RegionAt(layout, i) ==
    CHOOSE k \in 1..Len(layout) : OffsetOf(layout, k) <= i /\ i < OffsetOf(layout, k) + layout[k].size

\* the regions that are members
MemberRegions(layout) == {k \in 1..Len(layout) : ~layout[k].pad}

\* member values are drawn from 1..MaxMember
MaxMember == 2

\* what the storage of an object may hold where no member was written
StaleBytes == {0, 204}

\* the object representation of a struct with the given member values (little endian),
\* its padding bytes holding the byte stale
ObjectBytes(layout, members, stale) ==
    [i \in 1..SizeOf(layout) |->
        LET k == RegionAt(layout, i - 1)
        IN  IF layout[k].pad THEN stale
            ELSE IF i - 1 = OffsetOf(layout, k) THEN members[k] ELSE 0]

\* hash_bytes<Policy>(data, len) of a build with no SIMD extension
hash_bytes(Policy, bytes) == Eval(hash_bytes_scalar(Len(bytes)), bytes, Policy)

\* hash_impl<Policy>(value) for a Reflectable T that is trivially copyable with trivially
\* copyable members: bytes is the object representation of value
hash_impl(Policy, bytes) ==
    IF Len(bytes) = 8 THEN PolicyMix(Policy, LoadValue(bytes, 0, 8))
    ELSE IF Len(bytes) = 4 THEN PolicyMix(Policy, Xor64(LoadValue(bytes, 0, 4), W64(4)))
    ELSE IF Len(bytes) <= FixedMaxBytes THEN
        Eval(hash_bytes_fixed(Policy, Len(bytes)).value, bytes, Policy)
    ELSE hash_bytes(Policy, bytes)

default_policy == "folly_policy"

\* mirror_hash::hash(value)
hash(bytes) == hash_impl(default_policy, bytes)

StructInit ==
    /\ st_pc = "init"
    /\ st_type \in StructTypes
    /\ st_a = NoObject /\ st_b = NoObject
    /\ st_ha = W64(0) /\ st_hb = W64(0)
    /\ OnlyStruct

\* T a{...}: the members are written, the padding keeps what the storage held
ConstructA ==
    /\ st_pc = "init"
    /\ \E m \in [MemberRegions(Layout(st_type)) -> 1..MaxMember], stale \in StaleBytes :
          st_a' = [members |-> m, bytes |-> ObjectBytes(Layout(st_type), m, stale)]
    /\ st_pc' = "a"
    /\ UNCHANGED << st_type, st_b, st_ha, st_hb >>
    /\ UNCHANGED st_others

\* T b{...}
ConstructB ==
    /\ st_pc = "a"
    /\ \E m \in [MemberRegions(Layout(st_type)) -> 1..MaxMember], stale \in StaleBytes :
          st_b' = [members |-> m, bytes |-> ObjectBytes(Layout(st_type), m, stale)]
    /\ st_pc' = "b"
    /\ UNCHANGED << st_type, st_a, st_ha, st_hb >>
    /\ UNCHANGED st_others

\* mirror_hash::hash(a), mirror_hash::hash(b)
HashObjects ==
    /\ st_pc = "b"
    /\ st_ha' = hash(st_a.bytes)
    /\ st_hb' = hash(st_b.bytes)
    /\ st_pc' = "done"
    /\ UNCHANGED << st_type, st_a, st_b >>
    /\ UNCHANGED st_others

StructNext == ConstructA \/ ConstructB \/ HashObjects

SpecStruct == StructInit /\ [][StructNext]_vars

\* C4: two objects of a trivially copyable struct whose members compare equal hash to the
\* same value, whatever their padding bytes hold
C4_PaddingIndependent ==
    (st_pc = "done" /\ st_a.members = st_b.members) => st_ha = st_hb

\* two objects with equal members and different padding bytes have been hashed
C4_Witness ==
    st_pc = "done" /\ st_a.members = st_b.members /\ st_a.bytes # st_b.bytes

(***************************************************************************)
(* mirror_hash_unified.hpp: platform detection                             *)
(***************************************************************************)

\* a compilation target: its architecture, and whether the compiler announces AES
\* instructions (__ARM_FEATURE_CRYPTO or __ARM_FEATURE_AES on ARM64, __AES__ on x86-64)
Builds == [arch : {"aarch64", "x86_64", "other"}, aes : BOOLEAN]

MIRROR_HASH_ARM64(build) == build.arch = "aarch64"

MIRROR_HASH_HAS_AES(build) == MIRROR_HASH_ARM64(build) /\ build.aes

MIRROR_HASH_X64(build) == build.arch = "x86_64"

MIRROR_HASH_HAS_AES_NI(build) == MIRROR_HASH_X64(build) /\ build.aes

has_aes(build) == MIRROR_HASH_HAS_AES(build) \/ MIRROR_HASH_HAS_AES_NI(build)

(***************************************************************************)
(* The routines the entry points dispatch to.  A run is recorded as the    *)
(* routine that computed the result and the number of AES rounds           *)
(* (vaeseq_u8) it executed.                                                *)
(***************************************************************************)

Run(algo, rounds) == [algo |-> algo, rounds |-> rounds]

\* rapidhash.h: multiply-based, no AES instruction
rapidhashNano_withSeed(len) == Run("rapidhashNano", 0)

rapidhashMicro_withSeed(len) == Run("rapidhashMicro", 0)

rapidhash_withSeed(len) == Run("rapidhash", 0)

\* rounds of aes_mix, aes_compress_fast and aes_compress_full
aes_mix_rounds == 1

aes_compress_fast_rounds == 1

aes_compress_full_rounds == aes_mix_rounds + aes_mix_rounds + 1

\* the 32-byte loop absorbing one round per 32 bytes instead of two
RECURSIVE medium_loop32_one_round(_, _)
medium_loop32_one_round(len, rounds) ==
    IF len >= 32 THEN medium_loop32_one_round(len - 32, rounds + aes_mix_rounds)
    ELSE [len |-> len, rounds |-> rounds]

\* while (len >= 32): two aes_mix per 32-byte block
RECURSIVE medium_loop32(_, _)
medium_loop32(len, rounds) ==
    IF len >= 32 THEN medium_loop32(len - 32, rounds + 2 * aes_mix_rounds)
    ELSE [len |-> len, rounds |-> rounds]

\* the round key of every aes_mix of hash_aes_medium, in execution order
RECURSIVE medium_loop32_keys(_, _)
medium_loop32_keys(len, keys) ==
    IF len >= 32 THEN medium_loop32_keys(len - 32, keys \o << "AES_KEY1", "AES_KEY2" >>)
    ELSE [len |-> len, keys |-> keys]

medium_keys(len) ==
    LET s1 == medium_loop32_keys(len, << >>)
        s2 == IF s1.len >= 16 THEN [len |-> s1.len - 16, keys |-> Append(s1.keys, "AES_KEY1")]
              ELSE s1
        s3 == IF s2.len > 0 THEN [len |-> s2.len, keys |-> Append(s2.keys, "AES_KEY2")]
              ELSE s2
    IN  s3.keys \o << "AES_KEY1", "AES_KEY2", "AES_KEY3" >>

\* the offsets of the 16-byte loads of the while (len >= 32) loop
RECURSIVE medium_loop32_loads(_, _, _)
medium_loop32_loads(off, len, loads) ==
    IF len >= 32 THEN medium_loop32_loads(off + 32, len - 32, loads \o << off, off + 16 >>)
    ELSE [off |-> off, len |-> len, loads |-> loads]

\* medium_loads with the tail read at p instead of end - 16
medium_loads_tail_at_p(len) ==
    LET s1 == medium_loop32_loads(0, len, << >>)
        s2 == IF s1.len >= 16
              THEN [off |-> s1.off + 16, len |-> s1.len - 16, loads |-> Append(s1.loads, s1.off)]
              ELSE s1
    IN  IF s2.len > 0 THEN Append(s2.loads, s2.off) ELSE s2.loads

\* the offsets in key of the 16-byte loads of hash_aes_medium, in execution order: the
\* blocks of the loop, the 16-byte block, and the overlapping tail at end - 16
medium_loads(len) ==
    LET s1 == medium_loop32_loads(0, len, << >>)
        s2 == IF s1.len >= 16
              THEN [off |-> s1.off + 16, len |-> s1.len - 16, loads |-> Append(s1.loads, s1.off)]
              ELSE s1
    IN  IF s2.len > 0 THEN Append(s2.loads, len - 16) ELSE s2.loads

hash_aes_medium(len) ==
    LET s1 == medium_loop32(len, 0)
        s2 == IF s1.len >= 16 THEN [len |-> s1.len - 16, rounds |-> s1.rounds + aes_mix_rounds]
              ELSE s1
        s3 == IF s2.len > 0 THEN [len |-> s2.len, rounds |-> s2.rounds + aes_mix_rounds]
              ELSE s2
    IN  [algo |-> "hash_aes_medium", rounds |-> s3.rounds + 3 * aes_mix_rounds,
         keys |-> medium_keys(len), loads |-> medium_loads(len)]

\* while (len >= 128): seven fast compressions and one full compression per 128 bytes
RECURSIVE bulk_loop128(_, _)
bulk_loop128(len, rounds) ==
    IF len >= 128
    THEN bulk_loop128(len - 128, rounds + 7 * aes_compress_fast_rounds + aes_compress_full_rounds)
    ELSE [len |-> len, rounds |-> rounds]

\* while (len >= 16): one aes_mix per 16-byte block
RECURSIVE bulk_loop16(_, _)
bulk_loop16(len, rounds) ==
    IF len >= 16 THEN bulk_loop16(len - 16, rounds + aes_mix_rounds)
    ELSE [len |-> len, rounds |-> rounds]

\* the steps of hash_aes_bulk in execution order: "fast" and "full" are aes_compress_fast
\* and aes_compress_full, a key name is an aes_mix with that key, "partial" is the XOR of
\* the final partial block into the accumulator
RECURSIVE bulk_loop128_steps(_, _)
bulk_loop128_steps(len, steps) ==
    IF len >= 128
    THEN bulk_loop128_steps(len - 128,
             steps \o << "fast", "fast", "fast", "fast", "fast", "fast", "fast", "full" >>)
    ELSE [len |-> len, steps |-> steps]

RECURSIVE bulk_loop16_steps(_, _)
bulk_loop16_steps(len, steps) ==
    IF len >= 16 THEN bulk_loop16_steps(len - 16, Append(steps, "AES_KEY1"))
    ELSE [len |-> len, steps |-> steps]

bulk_steps(len) ==
    LET s1 == bulk_loop128_steps(len, << >>)
        s2 == IF s1.len >= 64
              THEN [len |-> s1.len - 64,
                    steps |-> s1.steps \o << "fast", "fast", "fast", "full" >>]
              ELSE s1
        s3 == bulk_loop16_steps(s2.len, s2.steps)
        s4 == IF s3.len > 0 THEN [len |-> s3.len, steps |-> Append(s3.steps, "partial")]
              ELSE s3
    IN  s4.steps \o << "AES_KEY1", "AES_KEY2", "AES_KEY3", "AES_KEY4" >>

\* the offsets of the 16-byte loads of the while (len >= 128) loop
RECURSIVE bulk_loop128_loads(_, _, _)
bulk_loop128_loads(off, len, loads) ==
    IF len >= 128
    THEN bulk_loop128_loads(off + 128, len - 128,
             loads \o << off, off + 16, off + 32, off + 48,
                         off + 64, off + 80, off + 96, off + 112 >>)
    ELSE [off |-> off, len |-> len, loads |-> loads]

\* the offsets of the 16-byte loads of the while (len >= 16) loop
RECURSIVE bulk_loop16_loads(_, _, _)
bulk_loop16_loads(off, len, loads) ==
    IF len >= 16 THEN bulk_loop16_loads(off + 16, len - 16, Append(loads, off))
    ELSE [off |-> off, len |-> len, loads |-> loads]

\* the memory accesses of hash_aes_bulk: loads, the offsets in key of its 16-byte loads
\* in execution order; partial, the final partial block: memcpy(buf, p, len) reads count
\* bytes of key from offset src into buf[0 .. count - 1] of the zeroed 16-byte buffer,
\* then buf[tag] = len is stored and the buffer is loaded
bulk_accesses(len) ==
    LET s1 == bulk_loop128_loads(0, len, << >>)
        s2 == IF s1.len >= 64
              THEN [off |-> s1.off + 64, len |-> s1.len - 64,
                    loads |-> s1.loads \o << s1.off, s1.off + 16, s1.off + 32, s1.off + 48 >>]
              ELSE s1
        s3 == bulk_loop16_loads(s2.off, s2.len, s2.loads)
    IN  [loads |-> s3.loads,
         partial |-> IF s3.len > 0
                     THEN [taken |-> TRUE, src |-> s3.off, count |-> s3.len, size |-> 16,
                           tag |-> 15]
                     ELSE [taken |-> FALSE]]

hash_aes_bulk(len) ==
    LET s1 == bulk_loop128(len, 0)
        s2 == IF s1.len >= 64
              THEN [len |-> s1.len - 64,
                    rounds |-> s1.rounds + 3 * aes_compress_fast_rounds + aes_compress_full_rounds]
              ELSE s1
        s3 == bulk_loop16(s2.len, s2.rounds)
    IN  [algo |-> "hash_aes_bulk", rounds |-> s3.rounds + 4 * aes_mix_rounds,
         steps |-> bulk_steps(len),
         loads |-> bulk_accesses(len).loads, partial |-> bulk_accesses(len).partial]

\* hash_aes with the 128-byte threshold moved to 256
hash_aes_threshold256(len) ==
    IF len <= 256 THEN hash_aes_medium(len) ELSE hash_aes_bulk(len)

\* detail::hash_aes(key, len, seed)
hash_aes(len) ==
    IF len <= 128 THEN hash_aes_medium(len) ELSE hash_aes_bulk(len)

(***************************************************************************)
(* mirror_hash_unified.hpp: public entry points                            *)
(***************************************************************************)

\* hash whose branch without MIRROR_HASH_HAS_AES leaves the small mixer at 32 bytes and
\* has no middle tier
hash_two_tiers(build, len) ==
    IF MIRROR_HASH_HAS_AES(build) THEN
        IF len <= 32 THEN rapidhashNano_withSeed(len)
        ELSE IF len <= 8192 THEN hash_aes(len)
        ELSE rapidhash_withSeed(len)
    ELSE
        IF len <= 32 THEN rapidhashNano_withSeed(len)
        ELSE rapidhash_withSeed(len)

\* mirror_hash::hash(key, len, seed)
hash_unified(build, len) ==
    IF MIRROR_HASH_HAS_AES(build) THEN
        IF len <= 32 THEN rapidhashNano_withSeed(len)
        ELSE IF len <= 8192 THEN hash_aes(len)
        ELSE rapidhash_withSeed(len)
    ELSE
        IF len <= 48 THEN rapidhashNano_withSeed(len)
        ELSE IF len <= 512 THEN rapidhashMicro_withSeed(len)
        ELSE rapidhash_withSeed(len)

\* mirror_hash::hash_nano(key, len, seed)
hash_nano(build, len) == rapidhashNano_withSeed(len)

\* hash_micro that takes the AES routines from 33 bytes on, as hash does
hash_micro_from33(build, len) ==
    IF MIRROR_HASH_HAS_AES(build) /\ len > 32 /\ len <= 8192 THEN hash_aes(len)
    ELSE rapidhashMicro_withSeed(len)

\* mirror_hash::hash_micro(key, len, seed)
hash_micro(build, len) ==
    IF MIRROR_HASH_HAS_AES(build) /\ len > 16 /\ len <= 8192 THEN hash_aes(len)
    ELSE rapidhashMicro_withSeed(len)

\* mirror_hash::hash_bulk(key, len, seed)
hash_bulk(build, len) == rapidhash_withSeed(len)

\* lengths are drawn from 0..MaxLen
MaxLen == 8200

UnifiedInit ==
    /\ un_pc = "call"
    /\ un_build \in Builds
    /\ un_len \in 0..MaxLen
    /\ un_fn = "none"
    /\ un_out = NoRun
    /\ OnlyUnified

CallHash ==
    /\ un_pc = "call"
    /\ un_fn' = "hash"
    /\ un_out' = hash_unified(un_build, un_len)
    /\ un_pc' = "ret"
    /\ UNCHANGED << un_build, un_len >>
    /\ UNCHANGED un_others

CallHashNano ==
    /\ un_pc = "call"
    /\ un_fn' = "hash_nano"
    /\ un_out' = hash_nano(un_build, un_len)
    /\ un_pc' = "ret"
    /\ UNCHANGED << un_build, un_len >>
    /\ UNCHANGED un_others

CallHashMicro ==
    /\ un_pc = "call"
    /\ un_fn' = "hash_micro"
    /\ un_out' = hash_micro(un_build, un_len)
    /\ un_pc' = "ret"
    /\ UNCHANGED << un_build, un_len >>
    /\ UNCHANGED un_others

CallHashBulk ==
    /\ un_pc = "call"
    /\ un_fn' = "hash_bulk"
    /\ un_out' = hash_bulk(un_build, un_len)
    /\ un_pc' = "ret"
    /\ UNCHANGED << un_build, un_len >>
    /\ UNCHANGED un_others

UnifiedNext == CallHash \/ CallHashNano \/ CallHashMicro \/ CallHashBulk

SpecUnified == UnifiedInit /\ [][UnifiedNext]_vars

(***************************************************************************)
(* Claims about the dispatcher (checked under SpecUnified)                 *)
(***************************************************************************)

\* the routines of the Hardware AES Mixer
AesAlgos == {"hash_aes_medium", "hash_aes_bulk"}

\* hash() has returned on this build
HashReturned == un_pc = "ret" /\ un_fn = "hash"

C8_NoAesTwoTiers ==
    (HashReturned /\ ~has_aes(un_build)) =>
        /\ un_len <= 32 => un_out.algo = "rapidhashNano"
        /\ un_len > 32 => un_out.algo = "rapidhash"

\* C8 amended: on a build without the hardware AES path, hash() uses rapidhashNano for
\* len <= 48, rapidhashMicro for 49..512 and the rapidhash bulk loop for len > 512, and
\* runs no AES round
C8_NoAesThreeTiers ==
    (HashReturned /\ ~MIRROR_HASH_HAS_AES(un_build)) =>
        /\ un_len <= 48 => un_out.algo = "rapidhashNano"
        /\ (49 <= un_len /\ un_len <= 512) => un_out.algo = "rapidhashMicro"
        /\ un_len > 512 => un_out.algo = "rapidhash"
        /\ un_out.rounds = 0

\* hash() returned from rapidhashMicro on a build without AES hardware
C8_Witness ==
    HashReturned /\ ~has_aes(un_build) /\ un_len = 49 /\ un_out.algo = "rapidhashMicro"

\* C9: has_aes() agrees with the dispatcher on every platform family: when it returns
\* true hash() sends every len in 33..8192 to the Hardware AES Mixer, and when it returns
\* false no len reaches the AES mixer
C9_HasAesAgrees ==
    HashReturned =>
        /\ (has_aes(un_build) /\ 33 <= un_len /\ un_len <= 8192) => un_out.algo \in AesAlgos
        /\ ~has_aes(un_build) => un_out.algo \notin AesAlgos

\* what the entry point fn computes for len on a given build
Override(fn, build, len) ==
    CASE fn = "hash_nano" -> hash_nano(build, len)
      [] fn = "hash_micro" -> hash_micro(build, len)
      [] fn = "hash_bulk" -> hash_bulk(build, len)

Overrides == {"hash_nano", "hash_micro", "hash_bulk"}

\* C10 as stated: hash_nano, hash_micro and hash_bulk each run the same algorithm for a
\* given len on a build with AES hardware and on a build without it
C10_OverridesForceStrategy ==
    (un_pc = "ret" /\ un_fn \in Overrides) =>
        \A other \in Builds : Override(un_fn, other, un_len) = un_out

\* C10 amended: hash_nano and hash_bulk run the same algorithm on every build; hash_micro
\* does so only for len <= 16 or len > 8192, and for 17..8192 it runs hash_aes on a build
\* with the hardware AES path and rapidhashMicro on every other build
C10_OverridesExceptMicroAes ==
    (un_pc = "ret" /\ un_fn \in Overrides) =>
        IF un_fn = "hash_micro" /\ 17 <= un_len /\ un_len <= 8192
        THEN un_out = (IF MIRROR_HASH_HAS_AES(un_build) THEN hash_aes(un_len)
                       ELSE Run("rapidhashMicro", 0))
        ELSE \A other \in Builds : Override(un_fn, other, un_len) = un_out

\* hash_micro returned from the AES mixer for a 17-byte input
C10_Witness ==
    /\ un_pc = "ret" /\ un_fn = "hash_micro" /\ un_len = 17
    /\ MIRROR_HASH_HAS_AES(un_build) /\ un_out.algo = "hash_aes_medium"

\* C11: hash_aes_medium is only ever invoked with 33 <= len <= 128, whichever public
\* entry point (hash, hash_nano, hash_micro, hash_bulk) was called
C11_MediumOnly33to128 ==
    (un_pc = "ret" /\ un_out.algo = "hash_aes_medium") => (33 <= un_len /\ un_len <= 128)

(***************************************************************************)
(* Hardware AES mixer, value level.  A 128-bit vector (uint8x16_t) is a    *)
(* tuple of 16 bytes, byte 0 first.                                        *)
(***************************************************************************)

\* the AES S-box (SubBytes of the AESE instruction)
SBox ==
    << 99, 124, 119, 123, 242, 107, 111, 197, 48, 1, 103, 43, 254, 215, 171, 118,
       202, 130, 201, 125, 250, 89, 71, 240, 173, 212, 162, 175, 156, 164, 114, 192,
       183, 253, 147, 38, 54, 63, 247, 204, 52, 165, 229, 241, 113, 216, 49, 21,
       4, 199, 35, 195, 24, 150, 5, 154, 7, 18, 128, 226, 235, 39, 178, 117,
       9, 131, 44, 26, 27, 110, 90, 160, 82, 59, 214, 179, 41, 227, 47, 132,
       83, 209, 0, 237, 32, 252, 177, 91, 106, 203, 190, 57, 74, 76, 88, 207,
       208, 239, 170, 251, 67, 77, 51, 133, 69, 249, 2, 127, 80, 60, 159, 168,
       81, 163, 64, 143, 146, 157, 56, 245, 188, 182, 218, 33, 16, 255, 243, 210,
       205, 12, 19, 236, 95, 151, 68, 23, 196, 167, 126, 61, 100, 93, 25, 115,
       96, 129, 79, 220, 34, 42, 144, 136, 70, 238, 184, 20, 222, 94, 11, 219,
       224, 50, 58, 10, 73, 6, 36, 92, 194, 211, 172, 98, 145, 149, 228, 121,
       231, 200, 55, 109, 141, 213, 78, 169, 108, 86, 244, 234, 101, 122, 174, 8,
       186, 120, 37, 46, 28, 166, 180, 198, 232, 221, 116, 31, 75, 189, 139, 138,
       112, 62, 181, 102, 72, 3, 246, 14, 97, 53, 87, 185, 134, 193, 29, 158,
       225, 248, 152, 17, 105, 217, 142, 148, 155, 30, 135, 233, 206, 85, 40, 223,
       140, 161, 137, 13, 191, 230, 66, 104, 65, 153, 45, 15, 176, 84, 187, 22 >>

\* a vector given byte by byte, every byte computed once
Forced(v) ==
    << v[1], v[2], v[3], v[4], v[5], v[6], v[7], v[8],
       v[9], v[10], v[11], v[12], v[13], v[14], v[15], v[16] >>

\* veorq_u8(a, b)
veorq_u8(a, b) ==
    CHOOSE r \in {Forced([i \in 1..16 |-> XorByte(x[i], y[i])]) : x \in {a}, y \in {b}} : TRUE

\* vdupq_n_u8(x)
vdupq_n_u8(x) == [i \in 1..16 |-> x % 256]

\* an initial state that does not take the seed
vdupq_n_u64_of_zero(seed) == [i \in 1..16 |-> 0]

\* vreinterpretq_u8_u64(vdupq_n_u64(seed)): the 8 seed bytes in both lanes
vdupq_n_u64(seed) == [i \in 1..16 |-> seed[((i - 1) % 8) + 1]]

\* vaeseq_u8(data, key): AddRoundKey, ShiftRows, SubBytes (no MixColumns)
vaeseq_u8(data, key) ==
    CHOOSE r \in {Forced([i \in 1..16 |->
                     LET n == i - 1
                         src == (n % 4) + 4 * (((n \div 4) + (n % 4)) % 4)
                     IN  SBox[x[src + 1] + 1]]) : x \in {veorq_u8(data, key)}} : TRUE

\* multiplication by x in GF(2^8) modulo x^8 + x^4 + x^3 + x + 1
xtime(a) == IF a >= 128 THEN XorByte((2 * a) % 256, 27) ELSE 2 * a

\* vaesmcq_u8(x): MixColumns
vaesmcq_u8(x) ==
    CHOOSE r \in {Forced([i \in 1..16 |->
                     LET n  == i - 1
                         c  == 4 * (n \div 4)
                         k  == n % 4
                         a0 == y[c + k + 1]
                         a1 == y[c + ((k + 1) % 4) + 1]
                         a2 == y[c + ((k + 2) % 4) + 1]
                         a3 == y[c + ((k + 3) % 4) + 1]
                     IN  XorByte(XorByte(xtime(a0), XorByte(xtime(a1), a1)), XorByte(a2, a3))]) :
                   y \in {x}} : TRUE

AES_KEY1 == << 45, 53, 141, 204, 170, 108, 120, 165, 139, 184, 75, 147, 150, 46, 172, 201 >>

AES_KEY2 == << 75, 51, 166, 46, 212, 51, 212, 163, 77, 90, 45, 165, 29, 225, 170, 71 >>

AES_KEY3 == << 160, 118, 29, 100, 120, 189, 100, 47, 231, 3, 126, 209, 160, 180, 40, 219 >>

AES_KEY4 == << 144, 237, 23, 101, 40, 28, 56, 140, 170, 170, 170, 170, 170, 170, 170, 170 >>

\* the key a round of the recorded schedule was given
KeyValue(name) ==
    CASE name = "AES_KEY1" -> AES_KEY1
      [] name = "AES_KEY2" -> AES_KEY2
      [] name = "AES_KEY3" -> AES_KEY3
      [] name = "AES_KEY4" -> AES_KEY4

\* C23: for every len in 33..128 hash_aes_medium runs one AES round per 16-byte block
\* absorbed and one for a 1..15-byte tail, 2*floor(len/32) + [len mod 32 >= 16] +
\* [len mod 16 # 0] absorbing rounds, followed by exactly 3 finalization rounds whose
\* three fixed keys are pairwise distinct
C23_MediumRounds ==
    (un_pc = "ret" /\ un_out.algo = "hash_aes_medium" /\ 33 <= un_len /\ un_len <= 128) =>
        LET absorbing == 2 * (un_len \div 32) + (IF un_len % 32 >= 16 THEN 1 ELSE 0)
                           + (IF un_len % 16 # 0 THEN 1 ELSE 0)
            final == SubSeq(un_out.keys, absorbing + 1, Len(un_out.keys))
        IN  /\ un_out.rounds = absorbing + 3
            /\ Len(un_out.keys) = un_out.rounds
            /\ Len(final) = 3
            /\ \A i, j \in 1..3 : i # j => KeyValue(final[i]) # KeyValue(final[j])

\* hash() returned from hash_aes_medium for 63 bytes: 2 + 1 + 1 absorbing rounds, then 3
C23_Witness ==
    /\ un_pc = "ret" /\ un_fn = "hash" /\ un_len = 63
    /\ un_out.algo = "hash_aes_medium" /\ un_out.rounds = 7
    /\ un_out.keys = << "AES_KEY1", "AES_KEY2", "AES_KEY1", "AES_KEY2",
                        "AES_KEY1", "AES_KEY2", "AES_KEY3" >>


\* aes_mix(data, key)
aes_mix(data, key) == vaesmcq_u8(vaeseq_u8(data, key))

\* aes_compress_fast(a, b)
aes_compress_fast(a, b) == vaesmcq_u8(vaeseq_u8(a, b))

\* aes_compress_full(a, b, k1, k2)
aes_compress_full(a, b, k1, k2) ==
    LET b1 == aes_mix(b, k1)
        b2 == aes_mix(b1, k2)
    IN  veorq_u8(vaeseq_u8(a, vdupq_n_u8(0)), b2)

\* finalize_aes(state): lane 0 xor lane 1
finalize_aes(state) ==
    CHOOSE r \in {Word([i \in 1..8 |-> XorByte(x[i], x[i + 8])]) : x \in {state}} : TRUE

\* vld1q_u8(p + off): the 16 bytes of buf from offset off
vld1q_u8(buf, off) == Forced([i \in 1..16 |-> buf[off + i]])

\* while (len >= 32): two blocks per iteration, mixed with k1 and k2
RECURSIVE medium_blocks32(_, _, _, _)
medium_blocks32(buf, off, len, state) ==
    IF len >= 32
    THEN LET s1 == aes_mix(veorq_u8(state, vld1q_u8(buf, off)), AES_KEY1)
             s2 == aes_mix(veorq_u8(s1, vld1q_u8(buf, off + 16)), AES_KEY2)
         IN  medium_blocks32(buf, off + 32, len - 32, s2)
    ELSE [off |-> off, len |-> len, state |-> state]

\* the 1..15-byte tail as hash_aes_medium reads it: the last 16 bytes of the buffer,
\* every byte xored with the remainder count
tail_overlapping(buf, end, off, len) == veorq_u8(vld1q_u8(buf, end - 16), vdupq_n_u8(len))

\* the partial block without its length tag in byte 15
tail_memcpy_untagged(buf, end, off, len) ==
    Forced([i \in 1..16 |-> IF i <= len THEN buf[off + i] ELSE 0])

\* the tail through a zeroed local buffer: the remainder bytes, zeros, byte 15 = count
tail_memcpy(buf, end, off, len) ==
    Forced([i \in 1..16 |-> IF i = 16 THEN len % 256 ELSE IF i <= len THEN buf[off + i] ELSE 0])

\* the tail block of one of the two variants
tail_block(tail, buf, end, off, len) ==
    IF tail = "overlapping" THEN tail_overlapping(buf, end, off, len)
    ELSE tail_memcpy(buf, end, off, len)

\* medium_absorb that drops the 1..15-byte tail
medium_absorb_without_tail(buf, len, seed, tail) ==
    CHOOSE r \in {IF s1.len >= 16
                  THEN aes_mix(veorq_u8(s1.state, vld1q_u8(buf, s1.off)), AES_KEY1)
                  ELSE s1.state :
                  s1 \in {medium_blocks32(buf, 0, len, vdupq_n_u64(seed))}} : TRUE

\* the medium routine up to its final rounds, the 1..15-byte tail read by the overlapping
\* load (tail = "overlapping") or through the zeroed local buffer (tail = "memcpy")
medium_absorb(buf, len, seed, tail) ==
    CHOOSE r \in
        {IF s2.len > 0
         THEN aes_mix(veorq_u8(s2.state, tail_block(tail, buf, len, s2.off, s2.len)), AES_KEY2)
         ELSE s2.state :
         s2 \in {IF s1.len >= 16
                 THEN [off |-> s1.off + 16, len |-> s1.len - 16,
                       state |-> aes_mix(veorq_u8(s1.state, vld1q_u8(buf, s1.off)),
                                         AES_KEY1)]
                 ELSE s1 :
                 s1 \in {medium_blocks32(buf, 0, len, vdupq_n_u64(seed))}}} : TRUE

\* hash_aes_medium(key, len, seed): the 64-bit result
hash_aes_medium_value(buf, len, seed) ==
    LET s == medium_absorb(buf, len, seed, "overlapping")
    IN  finalize_aes(aes_mix(aes_mix(aes_mix(s, AES_KEY1), AES_KEY2), AES_KEY3))

\* hash_with_overlapping_read(key, len, seed) of overlapping_read_test.cpp
hash_with_overlapping_read(buf, len, seed) ==
    LET s == medium_absorb(buf, len, seed, "overlapping")
    IN  finalize_aes(aes_mix(aes_mix(s, AES_KEY1), AES_KEY2))

\* hash_with_memcpy(key, len, seed) of overlapping_read_test.cpp
hash_with_memcpy(buf, len, seed) ==
    LET s == medium_absorb(buf, len, seed, "memcpy")
    IN  finalize_aes(aes_mix(aes_mix(s, AES_KEY1), AES_KEY2))

\* one 128-byte group: seven fast compressions into v0
fold8(buf, off) ==
    LET v(k) == vld1q_u8(buf, off + 16 * k)
        c1 == aes_compress_fast(v(0), v(1))
        c2 == aes_compress_fast(c1, v(2))
        c3 == aes_compress_fast(c2, v(3))
        c4 == aes_compress_fast(c3, v(4))
        c5 == aes_compress_fast(c4, v(5))
        c6 == aes_compress_fast(c5, v(6))
    IN  aes_compress_fast(c6, v(7))

\* one 64-byte group: three fast compressions into d0
fold4(buf, off) ==
    LET d(k) == vld1q_u8(buf, off + 16 * k)
        c1 == aes_compress_fast(d(0), d(1))
        c2 == aes_compress_fast(c1, d(2))
    IN  aes_compress_fast(c2, d(3))

\* while (len >= 128)
RECURSIVE bulk_blocks128(_, _, _, _)
bulk_blocks128(buf, off, len, acc) ==
    IF len >= 128
    THEN bulk_blocks128(buf, off + 128, len - 128,
                        aes_compress_full(acc, fold8(buf, off), AES_KEY1, AES_KEY2))
    ELSE [off |-> off, len |-> len, state |-> acc]

\* while (len >= 16)
RECURSIVE bulk_blocks16(_, _, _, _)
bulk_blocks16(buf, off, len, acc) ==
    IF len >= 16
    THEN bulk_blocks16(buf, off + 16, len - 16,
                       aes_mix(veorq_u8(acc, vld1q_u8(buf, off)), AES_KEY1))
    ELSE [off |-> off, len |-> len, state |-> acc]

\* hash_aes_bulk up to its final rounds: the accumulator after all input is absorbed
bulk_absorb(buf, len, seed) ==
    CHOOSE r \in
        {IF s3.len > 0
         THEN veorq_u8(s3.state, tail_memcpy(buf, len, s3.off, s3.len))
         ELSE s3.state :
         s3 \in {bulk_blocks16(buf, s2.off, s2.len, s2.state) :
                 s2 \in {IF s1.len >= 64
                         THEN [off |-> s1.off + 64, len |-> s1.len - 64,
                               state |-> aes_compress_full(s1.state, fold4(buf, s1.off),
                                                           AES_KEY1, AES_KEY2)]
                         ELSE s1 :
                         s1 \in {bulk_blocks128(buf, 0, len, vdupq_n_u64(seed))}}}} : TRUE

\* hash_aes_bulk(key, len, seed): the 64-bit result
hash_aes_bulk_value(buf, len, seed) ==
    LET s == bulk_absorb(buf, len, seed)
    IN  finalize_aes(aes_mix(aes_mix(aes_mix(aes_mix(s, AES_KEY1), AES_KEY2), AES_KEY3), AES_KEY4))

\* the bytes of a len-byte buffer from offset off on, every one of them 255
RemainingBytes(off, len) == [o \in (off + 1)..len |-> 255]

\* C24: for every len > 128 hash_aes_bulk processes floor(len/128) groups of 7 single-round
\* fast compresses and 1 full compress, then at most one 64-byte chunk (3 fast compresses
\* and 1 full compress), then at most three 16-byte chunks of one round each, then a
\* partial block of fewer than 16 bytes, zero-padded and with byte 15 set to the remaining
\* byte count, and finishes with exactly 4 rounds that use the 4 fixed keys
C24_BulkStructure ==
    (un_pc = "ret" /\ un_out.algo = "hash_aes_bulk" /\ un_len > 128) =>
        LET groups == un_len \div 128
            chunk64 == IF un_len % 128 >= 64 THEN 1 ELSE 0
            chunks16 == (un_len % 64) \div 16
            rest == un_len % 16
            partial == IF rest > 0 THEN 1 ELSE 0
            wide == 8 * groups + 4 * chunk64
            absorbed == wide + chunks16 + partial
            steps == un_out.steps
        IN  /\ Len(steps) = absorbed + 4
            /\ \A i \in 1..(8 * groups) :
                  steps[i] = (IF i % 8 = 0 THEN "full" ELSE "fast")
            /\ \A i \in 1..(4 * chunk64) :
                  steps[8 * groups + i] = (IF i = 4 THEN "full" ELSE "fast")
            /\ chunks16 <= 3
            /\ \A i \in 1..chunks16 : steps[wide + i] = "AES_KEY1"
            /\ rest > 0 =>
                  /\ steps[absorbed] = "partial"
                  /\ tail_memcpy(RemainingBytes(un_len - rest, un_len), un_len,
                                 un_len - rest, rest)
                        = [i \in 1..16 |-> IF i <= rest THEN 255
                                           ELSE IF i = 16 THEN rest ELSE 0]
            /\ SubSeq(steps, absorbed + 1, absorbed + 4)
                  = << "AES_KEY1", "AES_KEY2", "AES_KEY3", "AES_KEY4" >>
            /\ un_out.rounds = 7 * groups + 3 * chunk64 + chunks16 + 4
                                 + aes_compress_full_rounds * (groups + chunk64)

\* hash() returned from hash_aes_bulk for 255 bytes: one group, one 64-byte chunk, three
\* 16-byte chunks and a 15-byte partial block
C24_Witness ==
    /\ un_pc = "ret" /\ un_fn = "hash" /\ un_len = 255 /\ un_out.algo = "hash_aes_bulk"
    /\ un_out.steps = << "fast", "fast", "fast", "fast", "fast", "fast", "fast", "full",
                         "fast", "fast", "fast", "full", "AES_KEY1", "AES_KEY1", "AES_KEY1",
                         "partial", "AES_KEY1", "AES_KEY2", "AES_KEY3", "AES_KEY4" >>

\* hash_aes_medium: the 128-bit state that finalize_aes folds
hash_aes_medium_state(buf, len, seed) ==
    CHOOSE r \in {aes_mix(aes_mix(aes_mix(s, AES_KEY1), AES_KEY2), AES_KEY3) :
                    s \in {medium_absorb(buf, len, seed, "overlapping")}} : TRUE

\* detail::hash_aes(key, len, seed): the 64-bit result
hash_aes_value(buf, len, seed) ==
    IF len <= 128 THEN hash_aes_medium_value(buf, len, seed)
    ELSE hash_aes_bulk_value(buf, len, seed)

(***************************************************************************)
(* Comparisons of two computations on related inputs                       *)
(***************************************************************************)

\* test buffers: byte o of the buffer is (o * mult + 3) mod 256
PatternBuffer(len, mult) == [o \in 1..len |-> ((o - 1) * mult + 3) % 256]

\* seeds 0..MaxSeed
MaxSeed == 1

Seeds == {W64(s) : s \in 0..MaxSeed}

\* the buffer with its 16-byte blocks i and j (counted from 0) exchanged
ExchangeBlocks(buf, i, j) ==
    [o \in 1..Len(buf) |->
        LET k == (o - 1) \div 16
        IN  IF k = i THEN buf[o + 16 * (j - i)]
            ELSE IF k = j THEN buf[o - 16 * (j - i)]
            ELSE buf[o]]

\* blocks i and j are folded by the same 8-way group of hash_aes_bulk, or both by its
\* 4-way group
SameFoldGroup(len, i, j) ==
    LET full == len \div 128
        four == IF len % 128 >= 64 THEN 4 ELSE 0
    IN  \/ (i \div 8 = j \div 8 /\ j < 8 * full)
        \/ (i >= 8 * full /\ j < 8 * full + four)

\* lengths of the exchange comparison
ExchangeLens == {192, 256}

ExchangeInputs ==
    {[kind |-> "exchange", len |-> len, mult |-> m, seed |-> s, i |-> i, j |-> j] :
        len \in ExchangeLens, m \in {7}, s \in Seeds, i \in 0..15, j \in 0..15}

\* a buffer of alternating bytes 0x00 (even offsets) and 0x0F (odd offsets)
AlternatingBuffer(len) == [o \in 1..len |-> IF (o - 1) % 2 = 1 THEN 15 ELSE 0]

\* lengths of the medium tier that leave a 1..15-byte tail
TailLens == {len \in 33..128 : len % 16 # 0}

TailInputs ==
    {[kind |-> "tail", len |-> len, buf |-> b, seed |-> s] :
        len \in TailLens, b \in {1, 2, 3}, s \in Seeds}

\* the buffer of a tail comparison
TailBuffer(in) ==
    CASE in.buf = 1 -> PatternBuffer(in.len, 7)
      [] in.buf = 2 -> PatternBuffer(in.len, 13)
      [] in.buf = 3 -> AlternatingBuffer(in.len)

\* lengths of the comparison of the two byte-hashing paths
PathLens == (0..24) \cup {32, 48, 64, 100}

PathInputs ==
    {[kind |-> "paths", policy |-> P, N |-> N, mult |-> m, g |-> g] :
        P \in Policies, N \in PathLens, m \in {7, 13}, g \in StaleBytes}

\* the memory of a path comparison: the N bytes of the buffer and the 64 bytes after
\* them, which belong to some other object and hold g
PathMemory(in) ==
    [o \in 1..(in.N + 64) |-> IF o <= in.N THEN ((o - 1) * in.mult + 3) % 256 ELSE in.g]

\* the buffer of test_sanity: data[i] = i
SanityBuffer(len) == [o \in 1..len |-> (o - 1) % 256]

\* consecutive seeds 0..LastSeed
LastSeed == 7

\* the seeds hashed: the consecutive seeds, then 0x211aae4496157896 and 0xaf6b0733a80a8189
SeedTable ==
    [i \in 1..(LastSeed + 3) |->
        IF i <= LastSeed + 1 THEN W64(i - 1)
        ELSE IF i = LastSeed + 2 THEN W16(8474, 44612, 38421, 30870)
        ELSE W16(44907, 1843, 43018, 33161)]

\* lengths of the medium tier
SeedLens == {33, 64, 100, 128}

\* one buffer hashed with two different seeds
SeedInputs ==
    {[kind |-> "seeds", len |-> len, buf |-> b, i |-> i, j |-> j] :
        len \in SeedLens, b \in {1, 2}, i \in 1..(LastSeed + 3), j \in 1..(LastSeed + 3)}

\* the buffer of a seed comparison
SeedBuffer(in) == IF in.buf = 1 THEN SanityBuffer(in.len) ELSE PatternBuffer(in.len, 13)

\* the steps of hash_aes_medium before its final rounds, in order: the block XORed into
\* the state and the round key of the aes_mix that follows
RECURSIVE medium_block_steps(_, _, _, _)
medium_block_steps(buf, off, len, steps) ==
    IF len >= 32
    THEN medium_block_steps(buf, off + 32, len - 32,
             steps \o << << vld1q_u8(buf, off), "AES_KEY1" >>,
                         << vld1q_u8(buf, off + 16), "AES_KEY2" >> >>)
    ELSE [off |-> off, len |-> len, steps |-> steps]

medium_steps(buf, len) ==
    LET s1 == medium_block_steps(buf, 0, len, << >>)
        s2 == IF s1.len >= 16
              THEN [off |-> s1.off + 16, len |-> s1.len - 16,
                    steps |-> Append(s1.steps, << vld1q_u8(buf, s1.off), "AES_KEY1" >>)]
              ELSE s1
    IN  IF s2.len > 0
        THEN Append(s2.steps, << tail_overlapping(buf, len, s2.off, s2.len), "AES_KEY2" >>)
        ELSE s2.steps

\* the multiple of 16 above an unaligned length
AlignedLen(len) == len - (len % 16) + 16

\* the aligned input whose blocks are the blocks hash_aes_medium XORs into the state for
\* the unaligned buffer: the full blocks, then the last 16 bytes xored with the count
TaggedTailBuffer(buf, len) ==
    LET rem == len % 16
        tail == tail_overlapping(buf, len, len - rem, rem)
    IN  [o \in 1..AlignedLen(len) |-> IF o <= len - rem THEN buf[o] ELSE tail[o - (len - rem)]]

\* an unaligned input of the medium tier against an aligned input of the next multiple
\* of 16: the pattern buffer of that length, or the buffer just defined
AlignedInputs ==
    {[kind |-> "aligned", len |-> len, mult |-> m, rival |-> r, seed |-> s] :
        len \in TailLens, m \in {7, 13}, r \in {"pattern", "tagged_tail"}, s \in Seeds}

\* the aligned buffer of an aligned comparison
AlignedBuffer(in) ==
    IF in.rival = "pattern" THEN PatternBuffer(AlignedLen(in.len), in.mult + 4)
    ELSE TaggedTailBuffer(PatternBuffer(in.len, in.mult), in.len)

CompareInputs ==
    {x \in ExchangeInputs : x.i < x.j /\ SameFoldGroup(x.len, x.i, x.j)}
        \cup TailInputs \cup PathInputs \cup {x \in SeedInputs : x.i < x.j}
        \cup AlignedInputs

CompareInit ==
    /\ cmp_pc = "call"
    /\ cmp_in \in CompareInputs
    /\ cmp_out = << >>
    /\ OnlyCompare

\* hash_aes_bulk on a buffer and on the buffer with two blocks of one group exchanged
CompareExchange ==
    /\ cmp_pc = "call"
    /\ cmp_in.kind = "exchange"
    /\ LET a == PatternBuffer(cmp_in.len, cmp_in.mult)
           b == ExchangeBlocks(a, cmp_in.i, cmp_in.j)
       IN  cmp_out' = [differ |-> a # b,
                       acc_a |-> bulk_absorb(a, cmp_in.len, cmp_in.seed),
                       acc_b |-> bulk_absorb(b, cmp_in.len, cmp_in.seed),
                       a |-> hash_aes_bulk_value(a, cmp_in.len, cmp_in.seed),
                       b |-> hash_aes_bulk_value(b, cmp_in.len, cmp_in.seed)]
    /\ cmp_pc' = "done"
    /\ UNCHANGED cmp_in
    /\ UNCHANGED cmp_others

\* the medium routine with the tail read by the overlapping load and through the
\* zero-padded local buffer
CompareTail ==
    /\ cmp_pc = "call"
    /\ cmp_in.kind = "tail"
    /\ LET buf == TailBuffer(cmp_in)
           len == cmp_in.len
           rem == len % 16
       IN  cmp_out' = [tail_a |-> tail_overlapping(buf, len, len - rem, rem),
                       tail_b |-> tail_memcpy(buf, len, len - rem, rem),
                       acc_a |-> medium_absorb(buf, len, cmp_in.seed, "overlapping"),
                       acc_b |-> medium_absorb(buf, len, cmp_in.seed, "memcpy"),
                       a |-> hash_with_overlapping_read(buf, len, cmp_in.seed),
                       b |-> hash_with_memcpy(buf, len, cmp_in.seed)]
    /\ cmp_pc' = "done"
    /\ UNCHANGED cmp_in
    /\ UNCHANGED cmp_others

\* hash_bytes_fixed<Policy, N>(data) and hash_bytes_scalar<Policy>(data, N) on one buffer
ComparePaths ==
    /\ cmp_pc = "call"
    /\ cmp_in.kind = "paths"
    /\ LET buf == PathMemory(cmp_in)
       IN  cmp_out' = [fixed |-> Eval(hash_bytes_fixed(cmp_in.policy, cmp_in.N).value, buf,
                                      cmp_in.policy),
                       scalar |-> Eval(hash_bytes_scalar(cmp_in.N), buf, cmp_in.policy)]
    /\ cmp_pc' = "done"
    /\ UNCHANGED cmp_in
    /\ UNCHANGED cmp_others

\* hash(key, len, seed) on the AES build for one buffer of 33..128 bytes and two seeds
CompareSeeds ==
    /\ cmp_pc = "call"
    /\ cmp_in.kind = "seeds"
    /\ LET buf == SeedBuffer(cmp_in)
           s1 == SeedTable[cmp_in.i]
           s2 == SeedTable[cmp_in.j]
       IN  cmp_out' = [state_a |-> hash_aes_medium_state(buf, cmp_in.len, s1),
                       state_b |-> hash_aes_medium_state(buf, cmp_in.len, s2),
                       a |-> hash_aes_value(buf, cmp_in.len, s1),
                       b |-> hash_aes_value(buf, cmp_in.len, s2)]
    /\ cmp_pc' = "done"
    /\ UNCHANGED cmp_in
    /\ UNCHANGED cmp_others

\* hash_aes_medium on an unaligned buffer and on an aligned buffer, under one seed
CompareAligned ==
    /\ cmp_pc = "call"
    /\ cmp_in.kind = "aligned"
    /\ LET a == PatternBuffer(cmp_in.len, cmp_in.mult)
           b == AlignedBuffer(cmp_in)
           alen == AlignedLen(cmp_in.len)
       IN  cmp_out' = [steps_a |-> medium_steps(a, cmp_in.len),
                       steps_b |-> medium_steps(b, alen),
                       state_a |-> medium_absorb(a, cmp_in.len, cmp_in.seed, "overlapping"),
                       state_b |-> medium_absorb(b, alen, cmp_in.seed, "overlapping"),
                       a |-> hash_aes_medium_value(a, cmp_in.len, cmp_in.seed),
                       b |-> hash_aes_medium_value(b, alen, cmp_in.seed)]
    /\ cmp_pc' = "done"
    /\ UNCHANGED cmp_in
    /\ UNCHANGED cmp_others

CompareNext ==
    \/ CompareExchange
    \/ CompareTail
    \/ ComparePaths
    \/ CompareSeeds
    \/ CompareAligned

SpecCompare == CompareInit /\ [][CompareNext]_vars

\* C12: on the AES bulk path, two inputs of equal length that differ only by exchanging
\* two different 16-byte blocks inside one 128-byte or 64-byte group fold to different
\* accumulators and hash to different values
C12_ExchangeChangesHash ==
    (cmp_pc = "done" /\ cmp_in.kind = "exchange" /\ cmp_out.differ) =>
        (cmp_out.acc_a # cmp_out.acc_b /\ cmp_out.a # cmp_out.b)

\* C13 as stated: for every length in 33..128 that is no multiple of 16, the medium path
\* gives the same output with the overlapping tail read and with the zero-padded buffer
C13_TailVariantsAgree ==
    (cmp_pc = "done" /\ cmp_in.kind = "tail") => cmp_out.a = cmp_out.b

\* C13 amended: the two variants absorb different tail blocks in general; the state after
\* the tail round is the same exactly when the two tail blocks are the same, and equal
\* states give equal outputs
C13_TailVariantsAgreeIffSameBlock ==
    (cmp_pc = "done" /\ cmp_in.kind = "tail") =>
        /\ (cmp_out.tail_a = cmp_out.tail_b) <=> (cmp_out.acc_a = cmp_out.acc_b)
        /\ (cmp_out.acc_a = cmp_out.acc_b) => (cmp_out.a = cmp_out.b)

\* a 47-byte buffer whose two tail blocks differ, hashed to two different values
C13_Witness ==
    /\ cmp_pc = "done" /\ cmp_in.kind = "tail" /\ cmp_in.len = 47
    /\ cmp_out.tail_a # cmp_out.tail_b /\ cmp_out.a # cmp_out.b

\* C14: for a fixed policy, every length N and every buffer, hash_bytes_fixed<Policy, N>
\* and hash_bytes_scalar<Policy> with len = N return the same value
C14_FixedEqualsScalar ==
    (cmp_pc = "done" /\ cmp_in.kind = "paths") => cmp_out.fixed = cmp_out.scalar

Threads == {1, 2}

\* calls made by one thread
MaxCalls == 2

\* the build the threads run on: ARM64 with the crypto extension
ThreadBuild == [arch |-> "aarch64", aes |-> TRUE]

\* the calls a thread can make: entry point or routine, buffer pattern, len, seed
ThreadCalls ==
    { [entry |-> "hash", mult |-> 7, len |-> 212, seed |-> 0],
      [entry |-> "hash", mult |-> 13, len |-> 63, seed |-> 1],
      [entry |-> "hash_micro", mult |-> 7, len |-> 5, seed |-> 0],
      [entry |-> "hash_bytes_scalar", mult |-> 7, len |-> 11, seed |-> 0],
      [entry |-> "hash_aes_medium", mult |-> 7, len |-> 5, seed |-> 0] }

\* the routine that serves a call
Routine(c) ==
    CASE c.entry = "hash" -> hash_unified(ThreadBuild, c.len).algo
      [] c.entry = "hash_micro" -> hash_micro(ThreadBuild, c.len).algo
      [] OTHER -> c.entry

\* the memory around the buffer of a call: key[0 .. len-1] at offsets 1..len, and the 15
\* bytes below key, which belong to some other object and hold g
ThreadMemory(c, g) ==
    [o \in (-15)..c.len |-> IF o >= 1 THEN ((o - 1) * c.mult + 3) % 256 ELSE g]

\* a shared accumulator: every thread uses storage slot 1 (a static variable)
SharedSlot(t) == 1

\* the accumulator of a routine is a local variable of its own activation: each thread
\* has its own
Slot(t) == t

\* a buffer that is declared but not initialised keeps what the stack held
uninitialised_buf(stale) == stale

\* alignas(16) std::uint8_t buf[16] = {0}
zeroed_buf(stale) == [i \in 1..16 |-> 0]

\* the first statement of a routine
Entry(routine) ==
    CASE routine = "hash_aes_medium" -> "medium_loop32"
      [] routine = "hash_aes_bulk" -> "bulk_loop128"
      [] routine = "hash_bytes_scalar" -> "scalar_loop"
      [] OTHER -> "rapidhash"

\* a 64-bit accumulator in its 16-byte storage slot
InSlot(h) == Forced([i \in 1..16 |-> IF i <= 8 THEN h[i] ELSE 0])

\* the accumulator a routine starts from: the seed in both lanes, or h = len
InitialAcc(routine, c) ==
    IF routine = "hash_bytes_scalar" THEN InSlot(W64(c.len)) ELSE vdupq_n_u64(W64(c.seed))

ThreadsInit ==
    /\ th_pc = [t \in Threads |-> "idle"]
    /\ th_call = [t \in Threads |-> [entry |-> "none"]]
    /\ th_p = [t \in Threads |-> 0]
    /\ th_len = [t \in Threads |-> 0]
    /\ th_acc = [t \in Threads |-> InSlot(W64(0))]
    /\ th_stack = [t \in Threads |-> [i \in 1..16 |-> IF t = 1 THEN 0 ELSE 204]]
    /\ th_out = [t \in Threads |-> W64(0)]
    /\ th_hist = [t \in Threads |-> << >>]
    /\ OnlyThreads

\* thread t moves to statement pc with cursor p, remaining length len and accumulator acc
Advance(t, pc, p, len, acc) ==
    /\ th_pc' = [th_pc EXCEPT ![t] = pc]
    /\ th_p' = [th_p EXCEPT ![t] = p]
    /\ th_len' = [th_len EXCEPT ![t] = len]
    /\ th_acc' = [th_acc EXCEPT ![Slot(t)] = acc]

\* the buffer thread t hashes; only an out-of-bounds read sees g
Buffer(t, g) == ThreadMemory(th_call[t], g)

\* a thread calls an entry point or a routine: the locals are initialised
Call(t) ==
    /\ th_pc[t] = "idle"
    /\ Len(th_hist[t]) < MaxCalls
    /\ \E c \in ThreadCalls :
        /\ th_call' = [th_call EXCEPT ![t] = c]
        /\ Advance(t, Entry(Routine(c)), 0, c.len, InitialAcc(Routine(c), c))
    /\ UNCHANGED << th_stack, th_out, th_hist >>
    /\ UNCHANGED th_others

\* hash_aes_medium: while (len >= 32)
MediumLoop32(t) ==
    /\ th_pc[t] = "medium_loop32"
    /\ IF th_len[t] >= 32
       THEN Advance(t, "medium_loop32", th_p[t] + 32, th_len[t] - 32,
                    aes_mix(veorq_u8(aes_mix(veorq_u8(th_acc[Slot(t)],
                                                      vld1q_u8(Buffer(t, 0), th_p[t])),
                                             AES_KEY1),
                                     vld1q_u8(Buffer(t, 0), th_p[t] + 16)),
                            AES_KEY2))
       ELSE Advance(t, "medium_block16", th_p[t], th_len[t], th_acc[Slot(t)])
    /\ UNCHANGED << th_call, th_stack, th_out, th_hist >>
    /\ UNCHANGED th_others

\* hash_aes_medium: if (len >= 16)
MediumBlock16(t) ==
    /\ th_pc[t] = "medium_block16"
    /\ IF th_len[t] >= 16
       THEN Advance(t, "medium_tail", th_p[t] + 16, th_len[t] - 16,
                    aes_mix(veorq_u8(th_acc[Slot(t)], vld1q_u8(Buffer(t, 0), th_p[t])),
                            AES_KEY1))
       ELSE Advance(t, "medium_tail", th_p[t], th_len[t], th_acc[Slot(t)])
    /\ UNCHANGED << th_call, th_stack, th_out, th_hist >>
    /\ UNCHANGED th_others

\* hash_aes_medium: if (len > 0), the load of the 16 bytes below end.  With fewer than 16
\* bytes in the buffer the load starts below key: it faults, or it returns what lies there
MediumTail(t) ==
    /\ th_pc[t] = "medium_tail"
    /\ IF th_len[t] = 0
       THEN Advance(t, "medium_final", th_p[t], th_len[t], th_acc[Slot(t)])
       ELSE \/ \E g \in (IF th_call[t].len >= 16 THEN {0} ELSE StaleBytes) :
                 Advance(t, "medium_final", th_p[t], th_len[t],
                         aes_mix(veorq_u8(th_acc[Slot(t)],
                                          veorq_u8(vld1q_u8(Buffer(t, g), th_call[t].len - 16),
                                                   vdupq_n_u8(th_len[t]))),
                                 AES_KEY2))
            \/ /\ th_call[t].len < 16
               /\ Advance(t, "fault", th_p[t], th_len[t], th_acc[Slot(t)])
    /\ UNCHANGED << th_call, th_stack, th_out, th_hist >>
    /\ UNCHANGED th_others

\* hash_aes_medium: three final rounds and finalize_aes
MediumFinal(t) ==
    /\ th_pc[t] = "medium_final"
    /\ th_out' = [th_out EXCEPT ![t] =
          finalize_aes(aes_mix(aes_mix(aes_mix(th_acc[Slot(t)], AES_KEY1), AES_KEY2),
                               AES_KEY3))]
    /\ th_pc' = [th_pc EXCEPT ![t] = "ret"]
    /\ UNCHANGED << th_call, th_p, th_len, th_acc, th_stack, th_hist >>
    /\ UNCHANGED th_others

\* hash_aes_bulk: while (len >= 128)
BulkLoop128(t) ==
    /\ th_pc[t] = "bulk_loop128"
    /\ IF th_len[t] >= 128
       THEN Advance(t, "bulk_loop128", th_p[t] + 128, th_len[t] - 128,
                    aes_compress_full(th_acc[Slot(t)], fold8(Buffer(t, 0), th_p[t]),
                                      AES_KEY1, AES_KEY2))
       ELSE Advance(t, "bulk_group64", th_p[t], th_len[t], th_acc[Slot(t)])
    /\ UNCHANGED << th_call, th_stack, th_out, th_hist >>
    /\ UNCHANGED th_others

\* hash_aes_bulk: if (len >= 64)
BulkGroup64(t) ==
    /\ th_pc[t] = "bulk_group64"
    /\ IF th_len[t] >= 64
       THEN Advance(t, "bulk_loop16", th_p[t] + 64, th_len[t] - 64,
                    aes_compress_full(th_acc[Slot(t)], fold4(Buffer(t, 0), th_p[t]),
                                      AES_KEY1, AES_KEY2))
       ELSE Advance(t, "bulk_loop16", th_p[t], th_len[t], th_acc[Slot(t)])
    /\ UNCHANGED << th_call, th_stack, th_out, th_hist >>
    /\ UNCHANGED th_others

\* hash_aes_bulk: while (len >= 16)
BulkLoop16(t) ==
    /\ th_pc[t] = "bulk_loop16"
    /\ IF th_len[t] >= 16
       THEN Advance(t, "bulk_loop16", th_p[t] + 16, th_len[t] - 16,
                    aes_mix(veorq_u8(th_acc[Slot(t)], vld1q_u8(Buffer(t, 0), th_p[t])),
                            AES_KEY1))
       ELSE Advance(t, "bulk_tail", th_p[t], th_len[t], th_acc[Slot(t)])
    /\ UNCHANGED << th_call, th_stack, th_out, th_hist >>
    /\ UNCHANGED th_others

\* buf after  buf[16] = {0}; memcpy(buf, p, len); buf[15] = len
PartialBlock(buf, p, len, stale) ==
    Forced([i \in 1..16 |-> IF i = 16 THEN len % 256
                           ELSE IF i <= len THEN buf[p + i]
                           ELSE zeroed_buf(stale)[i]])

\* hash_aes_bulk: if (len > 0), through the local buffer, which stays on the stack
BulkTail(t) ==
    /\ th_pc[t] = "bulk_tail"
    /\ IF th_len[t] > 0
       THEN \E block \in {PartialBlock(Buffer(t, 0), th_p[t], th_len[t], th_stack[t])} :
               /\ Advance(t, "bulk_final", th_p[t], th_len[t],
                          veorq_u8(th_acc[Slot(t)], block))
               /\ th_stack' = [th_stack EXCEPT ![t] = block]
       ELSE /\ Advance(t, "bulk_final", th_p[t], th_len[t], th_acc[Slot(t)])
            /\ UNCHANGED th_stack
    /\ UNCHANGED << th_call, th_out, th_hist >>
    /\ UNCHANGED th_others

\* hash_aes_bulk: four final rounds and finalize_aes
BulkFinal(t) ==
    /\ th_pc[t] = "bulk_final"
    /\ th_out' = [th_out EXCEPT ![t] =
          finalize_aes(aes_mix(aes_mix(aes_mix(aes_mix(th_acc[Slot(t)], AES_KEY1),
                                               AES_KEY2), AES_KEY3), AES_KEY4))]
    /\ th_pc' = [th_pc EXCEPT ![t] = "ret"]
    /\ UNCHANGED << th_call, th_p, th_len, th_acc, th_stack, th_hist >>
    /\ UNCHANGED th_others

\* hash_bytes_scalar: while (len >= 8)
ScalarLoop(t) ==
    /\ th_pc[t] = "scalar_loop"
    /\ IF th_len[t] >= 8
       THEN Advance(t, "scalar_loop", th_p[t] + 8, th_len[t] - 8,
                    InSlot(PolicyCombine(default_policy, Word(th_acc[Slot(t)]),
                                         LoadValue(Buffer(t, 0), th_p[t], 8))))
       ELSE Advance(t, "scalar_tail", th_p[t], th_len[t], th_acc[Slot(t)])
    /\ UNCHANGED << th_call, th_stack, th_out, th_hist >>
    /\ UNCHANGED th_others

\* hash_bytes_scalar: if (len > 0) and return h
ScalarTail(t) ==
    /\ th_pc[t] = "scalar_tail"
    /\ th_out' = [th_out EXCEPT ![t] =
          IF th_len[t] > 0
          THEN PolicyCombine(default_policy, Word(th_acc[Slot(t)]),
                             LoadValue(Buffer(t, 0), th_p[t], th_len[t]))
          ELSE Word(th_acc[Slot(t)])]
    /\ th_pc' = [th_pc EXCEPT ![t] = "ret"]
    /\ UNCHANGED << th_call, th_p, th_len, th_acc, th_stack, th_hist >>
    /\ UNCHANGED th_others

\* the value rapidhash.h returns: a function of the routine, the bytes, len and seed
rapidhash_value(routine, c) == << routine, c.mult, c.len, c.seed >>

\* a call that the dispatcher hands to rapidhash.h
Rapidhash(t) ==
    /\ th_pc[t] = "rapidhash"
    /\ th_out' = [th_out EXCEPT ![t] = rapidhash_value(Routine(th_call[t]), th_call[t])]
    /\ th_pc' = [th_pc EXCEPT ![t] = "ret"]
    /\ UNCHANGED << th_call, th_p, th_len, th_acc, th_stack, th_hist >>
    /\ UNCHANGED th_others

\* the caller takes the value returned
Return(t) ==
    /\ th_pc[t] = "ret"
    /\ th_hist' = [th_hist EXCEPT ![t] = Append(@, [call |-> th_call[t], out |-> th_out[t]])]
    /\ th_pc' = [th_pc EXCEPT ![t] = "idle"]
    /\ UNCHANGED << th_call, th_p, th_len, th_acc, th_stack, th_out >>
    /\ UNCHANGED th_others

\* a step of a call in progress
Running(t) ==
    \/ MediumLoop32(t) \/ MediumBlock16(t) \/ MediumTail(t) \/ MediumFinal(t)
    \/ BulkLoop128(t) \/ BulkGroup64(t) \/ BulkLoop16(t) \/ BulkTail(t) \/ BulkFinal(t)
    \/ ScalarLoop(t) \/ ScalarTail(t) \/ Rapidhash(t) \/ Return(t)

ThreadsNext == \E t \in Threads : Call(t) \/ Running(t)

SpecThreads == ThreadsInit /\ [][ThreadsNext]_vars

\* one thread alone
SequentialNext == Call(1) \/ Running(1)

\* a program with a single thread, which is scheduled whenever it is inside a call
SpecSequential == ThreadsInit /\ [][SequentialNext]_vars /\ WF_vars(Running(1))

(***************************************************************************)
(* Claims about repeated and concurrent calls (SpecThreads) and about     *)
(* termination (SpecSequential)                                            *)
(***************************************************************************)

\* the values a call can return when it is the only call running, computed by the
\* routines as functions of the buffer, len and seed; a load below key sees any byte
AloneValues(c) ==
    CASE Routine(c) = "hash_aes_medium" ->
             {hash_aes_medium_value(ThreadMemory(c, g), c.len, W64(c.seed)) :
                 g \in (IF 1 <= c.len /\ c.len <= 15 THEN StaleBytes ELSE {0})}
      [] Routine(c) = "hash_aes_bulk" ->
             {hash_aes_bulk_value(ThreadMemory(c, 0), c.len, W64(c.seed))}
      [] Routine(c) = "hash_bytes_scalar" ->
             {Eval(hash_bytes_scalar(c.len), ThreadMemory(c, 0), default_policy)}
      [] OTHER -> {rapidhash_value(Routine(c), c)}

AloneTable == [c \in ThreadCalls |-> AloneValues(c)]

\* the calls that have returned, on any thread
Returned == UNION {{th_hist[t][i] : i \in 1..Len(th_hist[t])} : t \in Threads}

\* C15: every call of hash(B, len, S) with the same bytes, len and seed returns the same
\* value, whichever thread makes it and whatever calls ran before it
C15_Deterministic ==
    \A r1, r2 \in Returned :
        (r1.call.entry = "hash" /\ r1.call = r2.call) => r1.out = r2.out

\* thread 1 has hashed the 212-byte buffer twice and thread 2, whose stack held other
\* bytes, once
C15_Witness ==
    /\ Len(th_hist[1]) = 2 /\ Len(th_hist[2]) >= 1
    /\ th_hist[1][1].call = th_hist[1][2].call
    /\ th_hist[1][1].call = th_hist[2][1].call
    /\ th_hist[1][1].call.entry = "hash" /\ th_hist[1][1].call.len = 212

\* C16: under every interleaving of the two threads, a call returns a value it returns
\* when it runs alone
C16_SameAsAlone ==
    \A t \in Threads : th_pc[t] = "ret" => th_out[t] \in AloneTable[th_call[t]]

\* thread 1 returns from hashing the 212-byte buffer while thread 2 is in the middle of
\* hashing the same buffer
C16_Witness ==
    /\ th_pc[1] = "ret" /\ th_pc[2] = "bulk_group64" /\ th_p[2] = 128
    /\ th_call[1] = th_call[2] /\ th_call[1].len = 212

\* thread t is inside a routine
InCall(t) == th_pc[t] \notin {"idle", "ret", "fault"}

\* thread t runs one more iteration of a loop
LoopAgain(t) ==
    /\ MediumLoop32(t) \/ BulkLoop128(t) \/ BulkLoop16(t) \/ ScalarLoop(t)
    /\ th_pc'[t] = th_pc[t]

\* the call reaches its routine with a length the routine can read: every call through
\* an entry point, and hash_aes_medium called directly with len = 0 or len >= 16
LengthInBounds(c) == c.entry # "hash_aes_medium" \/ c.len = 0 \/ c.len >= 16

\* C17: for every len >= 0 every routine returns a value, every loop iteration
\* decreases the remaining length, p + remaining = end throughout, and no call ends in
\* an error
C17_Total ==
    /\ [](\A t \in Threads :
            th_pc[t] # "idle" =>
                (th_p[t] + th_len[t] = th_call[t].len /\ th_pc[t] # "fault"))
    /\ [][\A t \in Threads : LoopAgain(t) => th_len'[t] < th_len[t]]_vars
    /\ \A t \in Threads : InCall(t) ~> (th_pc[t] = "ret")

\* the same for every call through an entry point and for hash_aes_medium with len = 0
\* or len >= 16; hash_aes_medium with 1 <= len <= 15 loads 16 - len bytes from below
\* the buffer and need not return
C17_TotalWithinBounds ==
    /\ [](\A t \in Threads :
            th_pc[t] # "idle" =>
                /\ th_p[t] + th_len[t] = th_call[t].len
                /\ th_pc[t] = "fault" => ~LengthInBounds(th_call[t]))
    /\ [][\A t \in Threads : LoopAgain(t) => th_len'[t] < th_len[t]]_vars
    /\ \A t \in Threads :
          (InCall(t) /\ LengthInBounds(th_call[t])) ~> (th_pc[t] = "ret")

\* hash_aes_bulk has consumed 208 of 212 bytes in its loops and returned
C17_Witness ==
    /\ th_pc[1] = "ret" /\ Routine(th_call[1]) = "hash_aes_bulk"
    /\ th_call[1].len = 212 /\ th_p[1] = 208 /\ th_len[1] = 4

(***************************************************************************)
(* The fold over the members of an aggregate (per-field path of hash_impl) *)
(* and over the arguments of mirror_hash::combine, one pack element a step *)
(***************************************************************************)

\* members of an aggregate, arguments of a combine call
MaxFields == 3

\* the values a member or an argument takes
FieldValues == 1..4

\* the folds run: hash_impl<Policy>(value) for a Reflectable T that is not trivially
\* copyable, and combine<Policy>(args...), on the same values
FoldInputs ==
    {[fn |-> fn, policy |-> P, fields |-> f] :
        fn \in {"hash_impl", "combine"}, P \in Policies,
        f \in UNION {[1..n -> FieldValues] : n \in 0..MaxFields}}

\* hash_impl<Policy>(member) of an arithmetic member: std::hash<T>, which in libstdc++
\* returns the value itself
std_hash(v) == W64(v)

\* a fold that visits the members from the last to the first
get_member_reversed(N, I) == N + 1 - I

\* get_member<T, I>(): nonstatic_data_members_of(^^T)[I], the members in declaration
\* order; I counts from 1 here
get_member(N, I) == I

FoldInit ==
    /\ fd_pc = "call"
    /\ fd_in \in FoldInputs
    /\ fd_i = 0
    /\ fd_result = W64(0)
    /\ fd_trace = << >>
    /\ OnlyFold

\* entry: hash_impl returns 0 for a type with no members; otherwise result = 0
FoldCall ==
    /\ fd_pc = "call"
    /\ fd_result' = W64(0)
    /\ fd_i' = 1
    /\ fd_pc' = IF fd_in.fn = "hash_impl" /\ Len(fd_in.fields) = 0 THEN "ret" ELSE "fold"
    /\ UNCHANGED << fd_in, fd_trace >>
    /\ UNCHANGED fd_others

\* one element of the fold expression over the comma operator:
\* result = Policy::combine(result, hash_impl<Policy>(member))
FoldStep ==
    /\ fd_pc = "fold"
    /\ fd_i <= Len(fd_in.fields)
    /\ \E k \in {get_member(Len(fd_in.fields), fd_i)} :
          /\ fd_result' = PolicyCombine(fd_in.policy, fd_result, std_hash(fd_in.fields[k]))
          /\ fd_trace' = Append(fd_trace, k)
    /\ fd_i' = fd_i + 1
    /\ UNCHANGED << fd_pc, fd_in >>
    /\ UNCHANGED fd_others

\* return result
FoldReturn ==
    /\ fd_pc = "fold"
    /\ fd_i > Len(fd_in.fields)
    /\ fd_pc' = "ret"
    /\ UNCHANGED << fd_in, fd_i, fd_result, fd_trace >>
    /\ UNCHANGED fd_others

FoldNext == FoldCall \/ FoldStep \/ FoldReturn

SpecFold == FoldInit /\ [][FoldNext]_vars

\* r_0 = 0, r_i = Policy::combine(r_(i-1), hash(field_i))
RECURSIVE LeftFold(_, _, _)
LeftFold(Policy, fields, i) ==
    IF i = 0 THEN W64(0)
    ELSE PolicyCombine(Policy, LeftFold(Policy, fields, i - 1), std_hash(fields[i]))

\* C19: the per-field path of hash_impl returns the left fold r_0 = 0,
\* r_i = Policy::combine(r_(i-1), hash(field_i)) over the members in declaration order
\* with one combine per member, and mirror_hash::combine returns the same fold over
\* its arguments in argument order
C19_LeftFoldInOrder ==
    fd_pc = "ret" =>
        /\ fd_result = LeftFold(fd_in.policy, fd_in.fields, Len(fd_in.fields))
        /\ fd_trace = [i \in 1..Len(fd_in.fields) |-> i]

\* hash_impl has folded the members 1, 2, 4; the members in another order fold to
\* another value
C19_Witness ==
    /\ fd_pc = "ret" /\ fd_in.fn = "hash_impl" /\ fd_in.fields = << 1, 2, 4 >>
    /\ fd_trace = << 1, 2, 3 >>
    /\ fd_result # LeftFold(fd_in.policy, << 4, 2, 1 >>, 3)
    /\ fd_result # LeftFold(fd_in.policy, << 1, 2, 3 >>, 3)

(***************************************************************************)
(* The analyses of hash_quality.hpp.  A 64-bit value is a word of 8 bytes; *)
(* a double is kept as the exact fraction num/den of the integers it was   *)
(* computed from, den = 0 being the result of a division by zero (NaN for  *)
(* 0/0, an infinity otherwise).  A square root is kept as its square.      *)
(***************************************************************************)

HASH_BITS == 64

\* popcount(x)
popcount(x) ==
    LET F[i \in 0..64] == IF i = 64 THEN 0 ELSE Bit64(x, i) + F[i + 1]
    IN  F[0]

\* 1ULL << i
OneBit(i) == Word([b \in 1..8 |-> IF b = (i \div 8) + 1 THEN 2 ^ (i % 8) ELSE 0])

\* the hash callables handed to the analyses: two wrappers of run_analysis.cpp applied to
\* an 8-byte input, and a callable that returns the same value for every input
HashFns == {"std_hash", "murmur3_finalizer", "constant"}

hash_fn(f, input) ==
    CASE f = "std_hash" -> input
      [] f = "murmur3_finalizer" -> fmix64(Xor64(W64(0), fmix64(input)))
      [] f = "constant" -> W64(0)

\* the first values std::mt19937_64 rng(42) returns
mt19937_64 ==
    << W16(49489, 57213, 28389, 58070), W16(41879, 36793, 47397, 680),
       W16(49292, 38527, 3678, 31498), W16(8930, 50239, 35354, 54094),
       W16(59196, 41614, 19766, 6485), W16(6164, 56418, 40063, 20348),
       W16(37655, 2585, 26068, 9248), W16(24437, 37242, 16055, 47360),
       W16(17948, 40182, 11961, 64694), W16(25576, 51936, 16743, 32097),
       W16(811, 33901, 3005, 16203), W16(34321, 37321, 24720, 46150),
       W16(44909, 61541, 23656, 37336), W16(41768, 38830, 6282, 30766),
       W16(54168, 50121, 45099, 22221), W16(61977, 19399, 54679, 27432),
       W16(49362, 60837, 21457, 48182), W16(29420, 10743, 64576, 39026),
       W16(3067, 18517, 11616, 60449), W16(4233, 17459, 63815, 21799) >>

\* static_cast<double>(num) / den
Ratio(num, den) == [num |-> num, den |-> den]

\* r < n/d for d > 0; every comparison with NaN is false
Below(r, n, d) == IF r.den = 0 THEN r.num < 0 ELSE r.num * d < n * r.den

\* r > n/d for d > 0
Above(r, n, d) == IF r.den = 0 THEN r.num > 0 ELSE r.num * d > n * r.den

\* std::abs(r - 0.5)
BiasFromHalf(r) ==
    Ratio(IF 2 * r.num >= r.den THEN 2 * r.num - r.den ELSE r.den - 2 * r.num, 2 * r.den)

\* a sequence with every element computed once
Elements(f) == f \o << >>

\* the sum of s[lo..hi]
RECURSIVE SumRange(_, _, _)
SumRange(s, lo, hi) ==
    IF lo > hi THEN 0
    ELSE IF lo = hi THEN s[lo]
    ELSE SumRange(s, lo, (lo + hi) \div 2) + SumRange(s, (lo + hi) \div 2 + 1, hi)

\* the divisions whose divisor is zero, of a set of << statement, divisor >> pairs
DivisionsByZero(divisions) == {d[1] : d \in {x \in divisions : x[2] = 0}}

MaxSamples == 2

\* the num_buckets argument the model passes (the default is 65536)
Buckets == 16

\* h % m for a 64-bit word h
Mod64(h, m) ==
    LET F[i \in 0..8] == IF i = 0 THEN 0 ELSE (F[i - 1] * 256 + h[9 - i]) % m
    IN  F[8]

Analyses ==
    {"analyze_avalanche", "analyze_bit_independence", "analyze_distribution",
     "analyze_collisions", "analyze_differential", "analyze_permutation"}

\* analyze_permutation takes no sample count
OracleCalls ==
    {c \in [analysis : Analyses, fn : HashFns, num_samples : 0..MaxSamples] :
        c.analysis = "analyze_permutation" => c.num_samples = 0}

OracleInit ==
    /\ qa_pc = "call"
    /\ qa_call \in OracleCalls
    /\ qa_i = 0
    /\ qa_loc = << >>
    /\ qa_result = << >>
    /\ qa_faults = {}
    /\ OnlyOracle

\* the loop an analysis starts with
FirstLoop(analysis) ==
    CASE analysis = "analyze_avalanche" -> "avalanche_loop"
      [] analysis = "analyze_bit_independence" -> "bic_loop"
      [] analysis = "analyze_distribution" -> "distribution_loop"
      [] analysis = "analyze_collisions" -> "collisions_loop"
      [] analysis = "analyze_differential" -> "sequential_loop"
      [] analysis = "analyze_permutation" -> "single_bit"

\* the locals of an analysis as declared: empty containers, zeroed counters.  hashed counts
\* the sparse inputs analyze_permutation handed to hash_fn; the code keeps no such counter
Locals(call) ==
    CASE call.analysis = "analyze_avalanche" ->
            [avalanche_ratios |-> << >>,
             output_bit_flip_count |-> [bit \in 0..63 |-> 0],
             total_bit_tests |-> 0]
      [] call.analysis = "analyze_bit_independence" ->
            [coflip_count |-> [out_i \in 0..63 |-> [out_j \in 0..63 |-> 0]],
             flip_count |-> [bit \in 0..63 |-> 0],
             total_tests |-> 0]
      [] call.analysis = "analyze_distribution" -> [bucket_counts |-> [b \in 0..(Buckets - 1) |-> 0]]
      [] call.analysis = "analyze_collisions" -> [seen |-> {}, collisions |-> 0]
      [] call.analysis = "analyze_differential" ->
            [draws |-> 0, prev_hash |-> hash_fn(call.fn, W64(0)), total_avalanche |-> 0,
             hamming1_total |-> 0, hamming2_total |-> 0,
             hamming1_count |-> 0, hamming2_count |-> 0,
             high_total |-> 0, low_total |-> 0]
      [] call.analysis = "analyze_permutation" ->
            [hashes |-> {}, two_bit_inputs |-> << >>, hashed |-> 0]

\* the analysis moves to statement pc with loop counter i and locals loc
Continue(pc, i, loc) ==
    /\ qa_pc' = pc
    /\ qa_i' = i
    /\ qa_loc' = loc
    /\ UNCHANGED << qa_call, qa_result, qa_faults >>
    /\ UNCHANGED qa_others

\* the analysis returns result, having executed the faulty statements in faults
ReturnResult(result, faults) ==
    /\ qa_pc' = "ret"
    /\ qa_result' = result
    /\ qa_faults' = faults
    /\ UNCHANGED << qa_call, qa_i, qa_loc >>
    /\ UNCHANGED qa_others

AnalysisCall ==
    /\ qa_pc = "call"
    /\ Continue(FirstLoop(qa_call.analysis), 0, Locals(qa_call))

\* for each of the 64 input bits: hash of the input with that bit flipped, XOR base hash
FlipDiffs(f, input) ==
    Elements([n \in 1..64 |->
                 Xor64(hash_fn(f, input), hash_fn(f, Xor64(input, OneBit(n - 1))))])

\* the output bits set in each of the differences
FlippedBits(diffs) ==
    Elements([n \in 1..Len(diffs) |-> {out \in 0..63 : Bit64(diffs[n], out) = 1}])

\* analyze_avalanche: one iteration of for (i < num_samples)
AvalancheSample ==
    /\ qa_pc = "avalanche_loop"
    /\ IF qa_i < qa_call.num_samples
       THEN \E flipped \in {FlippedBits(FlipDiffs(qa_call.fn, mt19937_64[qa_i + 1]))} :
                Continue(qa_pc, qa_i + 1,
                    [avalanche_ratios |->
                        qa_loc.avalanche_ratios
                            \o [n \in 1..64 |-> Ratio(Cardinality(flipped[n]), HASH_BITS)],
                     output_bit_flip_count |->
                        [out \in 0..63 |->
                            qa_loc.output_bit_flip_count[out]
                                + Cardinality({n \in 1..64 : out \in flipped[n]})],
                     total_bit_tests |-> qa_loc.total_bit_tests + 64])
       ELSE Continue("avalanche_result", qa_i, qa_loc)

\* what a read through the end iterator of an empty vector of doubles may return
StaleDoubles == {Ratio(0, 1), Ratio(1, 1)}

\* analyze_avalanche from AvalancheResult result to return result.  std_deviation is kept
\* as its square, sum((r - mean)^2) / size = (size * sum(r^2) - sum(r)^2) / size^2
AvalancheReturn ==
    /\ qa_pc = "avalanche_result"
    /\ LET ratios == qa_loc.avalanche_ratios
           size == Len(ratios)
           bits == [n \in 1..size |-> ratios[n].num]
           sum == SumRange(bits, 1, size)
           sum_sq == SumRange([n \in 1..size |-> bits[n] * bits[n]], 1, size)
           total == qa_loc.total_bit_tests
           count == qa_loc.output_bit_flip_count
           mean_avalanche_ratio == Ratio(sum, HASH_BITS * size)
           avalanche_bias == BiasFromHalf(mean_avalanche_ratio)
           sac_sum ==
               SumRange([n \in 1..64 |-> BiasFromHalf(Ratio(count[n - 1], total)).num],
                        1, 64)
           sac_bias == Ratio(sac_sum, 2 * total * HASH_BITS)
           result(min, max) ==
               [mean_avalanche_ratio |-> mean_avalanche_ratio,
                avalanche_bias |-> avalanche_bias,
                min_avalanche_ratio |-> min,
                max_avalanche_ratio |-> max,
                std_deviation_squared |->
                    Ratio(size * sum_sq - sum * sum, HASH_BITS * HASH_BITS * size * size),
                per_bit_flip_probability |-> [bit \in 0..63 |-> Ratio(count[bit], total)],
                sac_bias |-> sac_bias,
                passed |-> Below(avalanche_bias, 2, 100) /\ Below(sac_bias, 2, 100)]
           mean_division ==
               DivisionsByZero({<< "mean_avalanche_ratio: / avalanche_ratios.size()", size >>})
           divisions ==
               mean_division
                   \cup DivisionsByZero(
                            {<< "std_deviation: / avalanche_ratios.size()", size >>,
                             << "per_bit_flip_probability: / total_bit_tests", total >>})
       IN  IF size > 0
           THEN ReturnResult(
                    result(CHOOSE r \in {ratios[n] : n \in 1..size} :
                               \A n \in 1..size : r.num <= ratios[n].num,
                           CHOOSE r \in {ratios[n] : n \in 1..size} :
                               \A n \in 1..size : r.num >= ratios[n].num),
                    divisions)
           ELSE \* *min_it and *max_it dereference end() of the empty vector: the process
                \* is killed there, or the reads return what lies at that address
                \/ /\ qa_pc' = "fault"
                   /\ qa_faults' = mean_division \cup {"*min_it: avalanche_ratios is empty"}
                   /\ UNCHANGED << qa_call, qa_i, qa_loc, qa_result >>
                   /\ UNCHANGED qa_others
                \/ \E min \in StaleDoubles, max \in StaleDoubles :
                       ReturnResult(result(min, max),
                                    divisions \cup {"*min_it: avalanche_ratios is empty",
                                                    "*max_it: avalanche_ratios is empty"})

\* analyze_bit_independence: one iteration of for (i < num_samples)
BICSample ==
    /\ qa_pc = "bic_loop"
    /\ IF qa_i < qa_call.num_samples
       THEN \E flipped \in {FlippedBits(FlipDiffs(qa_call.fn, mt19937_64[qa_i + 1]))} :
                Continue(qa_pc, qa_i + 1,
                    [coflip_count |->
                        [out_i \in 0..63 |-> [out_j \in 0..63 |->
                            qa_loc.coflip_count[out_i][out_j]
                                + (IF out_j > out_i
                                   THEN Cardinality({n \in 1..64 : out_i \in flipped[n]
                                                                    /\ out_j \in flipped[n]})
                                   ELSE 0)]],
                     flip_count |->
                        [out_i \in 0..63 |->
                            qa_loc.flip_count[out_i]
                                + Cardinality({n \in 1..64 : out_i \in flipped[n]})],
                     total_tests |-> qa_loc.total_tests + 64])
       ELSE Continue("bic_result", qa_i, qa_loc)

\* r > (n/d)^2 and r = (n/d)^2 for a fraction r with r.den > 0
AboveSquare(r, n, d) == r.num > (r.den * n * n) \div (d * d)

EqualsSquare(r, n, d) ==
    (r.den * n * n) % (d * d) = 0 /\ r.num = (r.den * n * n) \div (d * d)

\* a/b <= c/d for b > 0 and d > 0, by comparing the continued fractions
RECURSIVE FractionLeq(_, _, _, _)
FractionLeq(a, b, c, d) ==
    IF a \div b # c \div d THEN a \div b < c \div d
    ELSE IF a % b = 0 THEN TRUE
    ELSE IF c % d = 0 THEN FALSE
    ELSE FractionLeq(d, c % d, b, a % b)

RECURSIVE GCD(_, _)
GCD(a, b) == IF b = 0 THEN a ELSE GCD(b, a % b)

\* a fraction in lowest terms
Reduced(r) ==
    IF r.den = 0 THEN r
    ELSE Ratio(r.num \div GCD(r.num, r.den), r.den \div GCD(r.num, r.den))

\* the square of the correlation of output bits i and j, with T = total_tests:
\* (p_ij - p_i p_j)^2 / (p_i (1 - p_i) p_j (1 - p_j)), numerator and denominator times T^4
CorrelationSquared(loc, i, j) ==
    LET T == loc.total_tests
        n == loc.coflip_count[i][j] * T - loc.flip_count[i] * loc.flip_count[j]
    IN  Reduced(Ratio(n * n,
                      loc.flip_count[i] * (T - loc.flip_count[i])
                          * loc.flip_count[j] * (T - loc.flip_count[j])))

\* analyze_bit_independence from BICResult result to return result.  With total_tests = 0
\* every p is NaN, no pair is skipped and every correlation is NaN; otherwise denom < 1e-10
\* exactly when p_i (1 - p_i) p_j (1 - p_j) = 0.  The correlations are kept as their squares;
\* mean_correlation is the sum of the roots of `squares` (a bag, as value -> count) over
\* den, and is compared with 0.02 where all the correlations lie on one side of 0.02
BICReturn ==
    /\ qa_pc = "bic_result"
    /\ LET T == qa_loc.total_tests
           all == {<< i, j >> \in (0..63) \X (0..63) : i < j}
       IN  \E squared \in {[p \in all |-> CorrelationSquared(qa_loc, p[1], p[2])]} :
             LET counted == IF T = 0 THEN all ELSE {p \in all : squared[p].den # 0}
                 pair_count == Cardinality(counted)
                 values == {squared[p] : p \in counted}
                 highly_correlated_pairs ==
                     IF T = 0 THEN {} ELSE {p \in counted : AboveSquare(squared[p], 1, 10)}
                 max_below_tenth ==
                     T = 0 \/ \A v \in values : ~AboveSquare(v, 1, 10)
                                                 /\ ~EqualsSquare(v, 1, 10)
                 mean_below_fiftieth ==
                     CASE T = 0 \/ pair_count = 0 -> FALSE
                       [] \A v \in values : ~AboveSquare(v, 1, 50)
                                             /\ ~EqualsSquare(v, 1, 50) -> TRUE
                       [] \A v \in values : AboveSquare(v, 1, 50)
                                             \/ EqualsSquare(v, 1, 50) -> FALSE
             IN  ReturnResult(
                     [mean_correlation |->
                          [squares |-> [v \in values |->
                                           Cardinality({p \in counted : squared[p] = v})],
                           den |-> pair_count],
                      max_correlation_squared |->
                          IF T = 0 \/ pair_count = 0 THEN Ratio(0, 1)
                          ELSE CHOOSE v \in values :
                                   \A w \in values : FractionLeq(w.num, w.den, v.num, v.den),
                      highly_correlated_pairs |-> highly_correlated_pairs,
                      passed |-> max_below_tenth /\ mean_below_fiftieth],
                     DivisionsByZero({<< "p_i: / total_tests", T >>,
                                      << "mean_correlation: /= pair_count", pair_count >>}))

\* analyze_distribution: one iteration of for (i < num_samples)
DistributionSample ==
    /\ qa_pc = "distribution_loop"
    /\ IF qa_i < qa_call.num_samples
       THEN \E b \in {Mod64(hash_fn(qa_call.fn, mt19937_64[qa_i + 1]), Buckets)} :
                Continue(qa_pc, qa_i + 1,
                         [bucket_counts |-> [qa_loc.bucket_counts EXCEPT ![b] = @ + 1]])
       ELSE Continue("distribution_result", qa_i, qa_loc)

\* analyze_distribution from ChiSquaredResult result to return result.  With E = n / B,
\* chi_squared = sum((observed - E)^2 / E) = (B * sum(observed^2) - n^2) / n.  p_value is
\* kept as z^2 = (chi_squared - df)^2 / (2 df): p_value > 0.001 exactly when |z| is below
\* the two-tailed normal quantile 3.2905, z^2 < 10.8276
DistributionReturn ==
    /\ qa_pc = "distribution_result"
    /\ LET n == qa_call.num_samples
           observed == qa_loc.bucket_counts
           sum == SumRange([b \in 1..Buckets |-> observed[b - 1]], 1, Buckets)
           sum_sq == SumRange([b \in 1..Buckets |-> observed[b - 1] * observed[b - 1]],
                              1, Buckets)
           degrees_of_freedom == Buckets - 1
           expected_per_bucket == Ratio(n, Buckets)
           chi_squared == Ratio(Buckets * sum_sq - n * n, n)
           actual_variance == Ratio(Buckets * sum_sq - sum * sum, Buckets * Buckets)
           variance_ratio ==
               Ratio(actual_variance.num * expected_per_bucket.den,
                     actual_variance.den * expected_per_bucket.num)
           excess == chi_squared.num - degrees_of_freedom * chi_squared.den
           z_squared == Ratio(excess * excess,
                              2 * degrees_of_freedom * chi_squared.den * chi_squared.den)
       IN  ReturnResult(
               [chi_squared |-> chi_squared,
                degrees_of_freedom |-> degrees_of_freedom,
                z_squared |-> z_squared,
                expected_per_bucket |-> expected_per_bucket,
                actual_variance |-> actual_variance,
                expected_variance |-> expected_per_bucket,
                empty_buckets |-> Cardinality({b \in 0..(Buckets - 1) : observed[b] = 0}),
                passed |-> /\ Below(z_squared, 108276, 10000)
                           /\ Above(variance_ratio, 8, 10)
                           /\ Below(variance_ratio, 12, 10)],
               DivisionsByZero(
                   {<< "chi_squared: / expected_per_bucket", n >>}
                       \cup (IF Below(z_squared, 108276, 10000)
                             THEN {<< "passed: / expected_variance", n >>} ELSE {})))

\* analyze_collisions: one iteration of for (i < num_samples)
CollisionsSample ==
    /\ qa_pc = "collisions_loop"
    /\ IF qa_i < qa_call.num_samples
       THEN \E h \in {hash_fn(qa_call.fn, mt19937_64[qa_i + 1])} :
                Continue(qa_pc, qa_i + 1,
                         [seen |-> qa_loc.seen \cup {h},
                          collisions |-> qa_loc.collisions
                                             + (IF h \in qa_loc.seen THEN 1 ELSE 0)])
       ELSE Continue("collisions_result", qa_i, qa_loc)

\* analyze_collisions from result.unique_hashes = seen.size() to return result.
\* expected_collisions = n^2 / 2^65 is kept as n^2 over 2^shift, and compared through
\* x < 2^65 exactly when ((x div 2^30) div 2^30) div 32 < 1
CollisionsReturn ==
    /\ qa_pc = "collisions_result"
    /\ LET n == qa_call.num_samples
           collisions == qa_loc.collisions
           expected_collisions == [num |-> n * n, shift |-> 65]
           expected_below_thousandth ==
               (((1000 * expected_collisions.num) \div (2 ^ 30)) \div (2 ^ 30)) \div 32 < 1
           collision_ratio ==
               IF expected_below_thousandth
               THEN (IF collisions = 0 THEN Ratio(1, 1) ELSE Ratio(collisions * 1000, 1))
               ELSE [num |-> collisions, den |-> expected_collisions]
       IN  ReturnResult(
               [total_hashes |-> n,
                unique_hashes |-> Cardinality(qa_loc.seen),
                collisions |-> collisions,
                collision_rate |-> Ratio(collisions, n),
                expected_collisions |-> expected_collisions,
                collision_ratio |-> collision_ratio,
                passed |-> IF expected_below_thousandth THEN Below(collision_ratio, 10, 1)
                           ELSE collisions
                                    <= (((10 * expected_collisions.num - 1) \div (2 ^ 30))
                                            \div (2 ^ 30)) \div 32],
               DivisionsByZero({<< "collision_rate: / num_samples", n >>}))

\* analyze_differential: one iteration of the sequential loop for (i = 1; i <= num_samples)
DifferentialSequential ==
    /\ qa_pc = "sequential_loop"
    /\ IF qa_i + 1 <= qa_call.num_samples
       THEN \E h \in {hash_fn(qa_call.fn, W64(qa_i + 1))} :
                Continue(qa_pc, qa_i + 1,
                         [qa_loc EXCEPT
                             !.total_avalanche = @ + popcount(Xor64(h, qa_loc.prev_hash)),
                             !.prev_hash = h])
       ELSE Continue("hamming_loop", 0, qa_loc)

\* analyze_differential: one iteration of the Hamming distance loop
DifferentialHamming ==
    /\ qa_pc = "hamming_loop"
    /\ IF qa_i < qa_call.num_samples
       THEN LET input == mt19937_64[qa_loc.draws + 1]
                bit1 == Mod64(mt19937_64[qa_loc.draws + 2], 64)
                bit2 == Mod64(mt19937_64[qa_loc.draws + 3], 64)
                h1_input == Xor64(input, OneBit(bit1))
                h2_input == Xor64(Xor64(input, OneBit(bit1)), OneBit(bit2))
            IN  \E base_hash \in {hash_fn(qa_call.fn, input)} :
                    Continue(qa_pc, qa_i + 1,
                        [qa_loc EXCEPT
                            !.draws = @ + 3,
                            !.hamming1_total =
                                @ + popcount(Xor64(base_hash, hash_fn(qa_call.fn, h1_input))),
                            !.hamming1_count = @ + 1,
                            !.hamming2_total =
                                @ + popcount(Xor64(base_hash, hash_fn(qa_call.fn, h2_input))),
                            !.hamming2_count = @ + 1])
       ELSE Continue("high_low_loop", 0, qa_loc)

\* analyze_differential: one iteration of the high bits against low bits loop
DifferentialHighLow ==
    /\ qa_pc = "high_low_loop"
    /\ IF qa_i < qa_call.num_samples
       THEN LET input == mt19937_64[qa_loc.draws + 1]
                high_bit == 32 + Mod64(mt19937_64[qa_loc.draws + 2], 32)
                low_bit == Mod64(mt19937_64[qa_loc.draws + 3], 32)
            IN  \E base_hash \in {hash_fn(qa_call.fn, input)} :
                    Continue(qa_pc, qa_i + 1,
                        [qa_loc EXCEPT
                            !.draws = @ + 3,
                            !.high_total =
                                @ + popcount(Xor64(base_hash,
                                                   hash_fn(qa_call.fn,
                                                           Xor64(input, OneBit(high_bit))))),
                            !.low_total =
                                @ + popcount(Xor64(base_hash,
                                                   hash_fn(qa_call.fn,
                                                           Xor64(input, OneBit(low_bit)))))])
       ELSE Continue("differential_result", qa_i, qa_loc)

\* analyze_differential: the five averages (each total is a sum of popcount / HASH_BITS),
\* the pass criterion, return result
DifferentialReturn ==
    /\ qa_pc = "differential_result"
    /\ LET n == qa_call.num_samples
           sequential_avalanche == Ratio(qa_loc.total_avalanche, HASH_BITS * n)
           hamming1_avalanche ==
               Ratio(qa_loc.hamming1_total, HASH_BITS * qa_loc.hamming1_count)
           hamming2_avalanche ==
               Ratio(qa_loc.hamming2_total, HASH_BITS * qa_loc.hamming2_count)
           high_bits_avalanche == Ratio(qa_loc.high_total, HASH_BITS * n)
           low_bits_avalanche == Ratio(qa_loc.low_total, HASH_BITS * n)
           sequential_bias == BiasFromHalf(sequential_avalanche)
       IN  ReturnResult(
               [sequential_avalanche |-> sequential_avalanche,
                sequential_bias |-> sequential_bias,
                hamming1_avalanche |-> hamming1_avalanche,
                hamming2_avalanche |-> hamming2_avalanche,
                high_bits_avalanche |-> high_bits_avalanche,
                low_bits_avalanche |-> low_bits_avalanche,
                passed |-> /\ Below(sequential_bias, 5, 100)
                           /\ Below(BiasFromHalf(hamming1_avalanche), 5, 100)
                           /\ Below(BiasFromHalf(hamming2_avalanche), 5, 100)
                           /\ Below(BiasFromHalf(high_bits_avalanche), 5, 100)
                           /\ Below(BiasFromHalf(low_bits_avalanche), 5, 100)],
               DivisionsByZero(
                   {<< "sequential_avalanche: / num_samples", n >>,
                    << "hamming1_avalanche: / hamming1_count", qa_loc.hamming1_count >>,
                    << "hamming2_avalanche: / hamming2_count", qa_loc.hamming2_count >>,
                    << "high_bits_avalanche: / num_samples", n >>,
                    << "low_bits_avalanche: / num_samples", n >>}))

\* analyze_permutation: for (int i = 0; i < 64; ++i) over the single-bit inputs
PermutationSingleBit ==
    /\ qa_pc = "single_bit"
    /\ IF qa_i < 64
       THEN Continue(qa_pc, qa_i + 1,
                     [qa_loc EXCEPT
                         !.hashes = @ \cup {hash_fn(qa_call.fn, OneBit(qa_i))},
                         !.hashed = @ + 1])
       ELSE Continue("two_bit", 0, qa_loc)

\* the inner loop over j of the two-bit inputs for one i: the inputs and their hashes
TwoBitRow(f, i) ==
    Elements([n \in 1..(63 - i) |->
                 CHOOSE r \in {<< input, hash_fn(f, input) >> :
                               input \in {Or64(OneBit(i), OneBit(i + n))}} : TRUE])

\* analyze_permutation: one iteration of the outer loop over the two-bit inputs
PermutationTwoBit ==
    /\ qa_pc = "two_bit"
    /\ IF qa_i < 64
       THEN \E row \in {TwoBitRow(qa_call.fn, qa_i)} :
                Continue(qa_pc, qa_i + 1,
                         [qa_loc EXCEPT
                             !.hashes = @ \cup {row[n][2] : n \in 1..Len(row)},
                             !.two_bit_inputs = @ \o row,
                             !.hashed = @ + Len(row)])
       ELSE Continue("three_bit", 0, qa_loc)

\* the values of a loop counter that starts at first and advances by 4 while below 64
Stride4(first) == {x \in first..63 : (x - first) % 4 = 0}

\* the (j, k) pairs the sampled three-bit loops visit for one i
ThreeBitPairs(i) ==
    {p \in (0..63) \X (0..63) : p[1] \in Stride4(i + 1) /\ p[2] \in Stride4(p[1] + 1)}

\* analyze_permutation: one iteration of the outer loop over the sampled three-bit inputs
PermutationThreeBit ==
    /\ qa_pc = "three_bit"
    /\ IF qa_i < 64
       THEN \E pairs \in {ThreeBitPairs(qa_i)} :
                Continue(qa_pc, qa_i + 1,
                    [qa_loc EXCEPT
                        !.hashes = @ \cup
                            {hash_fn(qa_call.fn,
                                     Or64(Or64(OneBit(qa_i), OneBit(p[1])), OneBit(p[2]))) :
                             p \in pairs},
                        !.hashed = @ + Cardinality(pairs)])
       ELSE Continue("sparse_result", qa_i, qa_loc)

\* the two-bit avalanche loop: for each pair of adjacent two-bit inputs that share one bit,
\* popcount of the difference of their hashes; -1 where the pair is not compared
AdjacentTerms(two_bit_inputs) ==
    Elements([i \in 1..(Len(two_bit_inputs) - 1) |->
                 IF popcount(Xor64(two_bit_inputs[i][1], two_bit_inputs[i + 1][1])) = 2
                 THEN popcount(Xor64(two_bit_inputs[i][2], two_bit_inputs[i + 1][2]))
                 ELSE -1])

\* analyze_permutation from result.total_sparse_inputs = ... to return result
PermutationReturn ==
    /\ qa_pc = "sparse_result"
    /\ \E terms \in {AdjacentTerms(qa_loc.two_bit_inputs)} :
        LET total_sparse_inputs == 64 + ((64 * 63) \div 2) + ((64 * 16 * 16) \div 2)
            unique_hashes == Cardinality(qa_loc.hashes)
            sparse_collision_rate ==
                Ratio(total_sparse_inputs - unique_hashes, total_sparse_inputs)
            comparisons == Cardinality({i \in 1..Len(terms) : terms[i] >= 0})
            avalanche_sum ==
                SumRange([i \in 1..Len(terms) |-> IF terms[i] >= 0 THEN terms[i] ELSE 0],
                         1, Len(terms))
            two_bit_avalanche ==
                IF comparisons > 0 THEN Ratio(avalanche_sum, HASH_BITS * comparisons)
                ELSE Ratio(1, 2)
        IN  ReturnResult(
                [sparse_collision_rate |-> sparse_collision_rate,
                 two_bit_avalanche |-> two_bit_avalanche,
                 total_sparse_inputs |-> total_sparse_inputs,
                 unique_hashes |-> unique_hashes,
                 passed |-> /\ Below(sparse_collision_rate, 1, 1000)
                            /\ Below(BiasFromHalf(two_bit_avalanche), 1, 10)],
                {})

OracleNext ==
    \/ AnalysisCall
    \/ AvalancheSample
    \/ AvalancheReturn
    \/ BICSample
    \/ BICReturn
    \/ DistributionSample
    \/ DistributionReturn
    \/ CollisionsSample
    \/ CollisionsReturn
    \/ DifferentialSequential
    \/ DifferentialHamming
    \/ DifferentialHighLow
    \/ DifferentialReturn
    \/ PermutationSingleBit
    \/ PermutationTwoBit
    \/ PermutationThreeBit
    \/ PermutationReturn

SpecOracle == OracleInit /\ [][OracleNext]_vars

\* C25: when analyze_permutation returns for a hash that is injective on the
\* sparse inputs it hashed, total_sparse_inputs equals the number of inputs
\* hashed, unique_hashes equals total_sparse_inputs, sparse_collision_rate is
\* 0 and the criterion sparse_collision_rate < 0.001 is met.
C25_InjectiveSparseRate ==
    (/\ qa_pc = "ret"
     /\ qa_call.analysis = "analyze_permutation"
     /\ Cardinality(qa_loc.hashes) = qa_loc.hashed) =>
        /\ qa_result.total_sparse_inputs = qa_loc.hashed
        /\ qa_result.unique_hashes = qa_result.total_sparse_inputs
        /\ qa_result.sparse_collision_rate.num = 0
        /\ Below(qa_result.sparse_collision_rate, 1, 1000)

\* C26: every analysis returns a result with a pass/fail decision for every
\* hash callable and every sample count, zero included: no analysis divides
\* by zero, dereferences the end of an empty range, or aborts.
C26_AnalysesTotal ==
    /\ qa_pc # "fault"
    /\ qa_faults = {}
    /\ qa_pc = "ret" => qa_result.passed \in BOOLEAN

\* C28: for every N in 1..4096, every byte offset of the buffer lies inside at
\* least one load of hash_bytes_wyhash_optimized<N> whose value reaches a mix
\* or the finalizer of the returned hash.
C28_WyhashEveryByteMixed ==
    (fx_pc = "ret" /\ fx_policy = "wyhash_policy" /\ fx_N \in 1..FixedMaxBytes) =>
        LET used == Leaves(fx_out.value)
        IN  \A b \in 0..(fx_N - 1) : \E i \in 1..Len(used) : b \in LoadBytes(used[i])

\* C29: under one seed, an input of hash_aes_medium whose length is not a multiple of 16
\* never goes through the same sequence of (block, round key) steps as an input whose
\* length is the next multiple of 16, and no 64-, 96- or 128-byte input reaches the same
\* state before the final rounds as a 49..63-, 81..95- or 113..127-byte input.
C29_TagSeparatesAligned ==
    (cmp_pc = "done" /\ cmp_in.kind = "aligned") =>
        /\ cmp_out.steps_a # cmp_out.steps_b
        /\ AlignedLen(cmp_in.len) \in {64, 96, 128} => cmp_out.state_a # cmp_out.state_b

\* C30: for every len with which hash or hash_micro invokes hash_aes_medium or
\* hash_aes_bulk, len is in 17..8192 and every 16-byte load of the key reads only
\* offsets in [0, len): block loads end at or before len, the overlapping tail load of
\* hash_aes_medium starts at len - 16 >= 0, and the partial block of hash_aes_bulk copies
\* exactly the remaining 1..15 bytes, inside [0, len), into the start of the zeroed
\* 16-byte buffer and leaves the length tag in byte 15.
C30_LoadsInsideBuffer ==
    (un_pc = "ret" /\ un_fn \in {"hash", "hash_micro"} /\ un_out.algo \in AesAlgos) =>
        /\ 17 <= un_len /\ un_len <= 8192
        /\ \A i \in 1..Len(un_out.loads) :
              0 <= un_out.loads[i] /\ un_out.loads[i] + 16 <= un_len
        /\ un_out.algo = "hash_aes_medium" =>
              /\ un_len <= 128
              /\ un_len % 16 # 0 =>
                    /\ un_out.loads[Len(un_out.loads)] = un_len - 16
                    /\ Len(un_out.loads) = un_len \div 16 + 1
              /\ un_len % 16 = 0 => Len(un_out.loads) = un_len \div 16
        /\ un_out.algo = "hash_aes_bulk" =>
              /\ Len(un_out.loads) = un_len \div 16
              /\ un_out.partial.taken <=> un_len % 16 # 0
              /\ un_out.partial.taken =>
                    /\ un_out.partial.count = un_len % 16
                    /\ un_out.partial.src = un_len - un_out.partial.count
                    /\ un_out.partial.src + un_out.partial.count <= un_len
                    /\ un_out.partial.count - 1 < un_out.partial.tag
                    /\ un_out.partial.tag < un_out.partial.size
                    /\ tail_memcpy(RemainingBytes(un_out.partial.src, un_len), un_len,
                                   un_out.partial.src, un_out.partial.count)[16]
                           = un_out.partial.count

\* hash_micro has sent a 17-byte key to hash_aes_medium, which loads the block at
\* offset 0 and the overlapping tail at offset 1
C30_Witness ==
    /\ un_pc = "ret"
    /\ un_fn = "hash_micro"
    /\ un_len = 17
    /\ un_out.algo = "hash_aes_medium"
    /\ un_out.loads = << 0, 1 >>

====
